---- MODULE Spec2Model ----
(***************************************************************************)
(* The event retention store of the webhook gateway                        *)
(* (internal/event/memory.go): a fixed-capacity ring buffer with an id     *)
(* index, guarded by one sync.RWMutex, called concurrently by several      *)
(* goroutines.                                                             *)
(*                                                                         *)
(* Spec     several callers; every operation takes the lock, runs its body *)
(*          statement by statement and releases the lock on return.        *)
(* SpecFair Spec with the fairness of the Go scheduler and of the mutex.    *)
(* SpecWalk Spec with List run one loop iteration per step.                *)
(* SpecSeq  one caller at a time; every operation is one step (lock, whole *)
(*          body, unlock), with the wider input sets.                      *)
(* SpecNew  SpecSeq after NewMemoryStore(capacity) for any capacity, the   *)
(*          rejected ones included.                                        *)
(* SpecAlias  one caller that saves, reads and writes to the values it     *)
(*          holds; RawBody and Headers are references into heap.           *)
(* SpecServer  the webhook handler (internal/server/server.go) run by      *)
(*          several goroutines on one store and one agent client.          *)
(* SpecAdmin  one client posting webhooks and listing /admin/events, one   *)
(*          request after the other, on stores that hold more than a page. *)
(* SpecRun  the run command: configuration, store, then SpecServer.        *)
(* SpecMiddleware  a request through RequestID, Logging, Recovery and the  *)
(*          route's handler, which may panic.                              *)
(* SpecFilter  the skill registry: Scan and Filter.                        *)
(***************************************************************************)
EXTENDS Integers, Sequences, FiniteSets, TLC

\* ------------------------------------------------------------------ bounds
MaxCap == 2          \* capacities 1..MaxCap are constructed
MaxIds == 2          \* event ids 1..MaxIds
MaxSaves == 3        \* Save calls per behaviour
MaxLimit == 2        \* List is called with limit and offset in -1..MaxLimit
MaxSkills == 3       \* a Scan finds up to MaxSkills skills
MaxAllow == 2        \* an allowlist has up to MaxAllow names

\* --------------------------------------------------------- program constants
EventStatusReceived == "received"
EventStatusForwarded == "forwarded"
EventStatusFailed == "failed"
EventStatusCompleted == "completed"
ErrNotFound == "event not found"
Nil == "nil"

\* uuid.Nil, the ID of the zero Event
NilUUID == 0

Ids == 1..MaxIds
\* Two goroutines call the store at the same time: every pair of operations overlaps.
Callers == {1, 2}
Capacities == 1..MaxCap
EventStatus == {EventStatusReceived, EventStatusForwarded,
                EventStatusFailed, EventStatusCompleted}
ListArgs == (-1)..MaxLimit

\* types.Event: the six fields of the struct. RawBody (a json.RawMessage, that
\* is a []byte) and Headers (a map[string]string) are references: the field
\* holds the address of the bytes, of the map, and 0 is nil.
Event(id, channel, body, headers, ts, status) ==
  [ID |-> id, ChannelID |-> channel, RawBody |-> body, Headers |-> headers,
   Timestamp |-> ts, Status |-> status]

\* The zero value types.Event{} that make([]types.Event, capacity) fills buf with.
ZeroEvent == Event(NilUUID, "", 0, 0, 0, "")

\* The bytes and the map an event built at time now refers to, as the literals
\* and the request give them.
Literal(now) ==
  IF now % 2 = 1
  THEN [RawBody |-> "{\"test\":true}", Headers |-> "X-Test=1"]
  ELSE [RawBody |-> "{\"alerts\":[]}", Headers |-> "Content-Type=json"]

\* An event as the callers build it (makeEvent in the store's tests, ParseRequest
\* in the channels): the id the caller chose, the channel's name, a fresh byte
\* slice and a fresh map (the ones at address now), Timestamp time.Now() and
\* Status received. The store does not look at the id: the fixed id of
\* dummyTestChannel.ParseRequest arrives more than once.
makeEvent(id, now) ==
  Event(id, IF now % 2 = 1 THEN "dummy" ELSE "grafana", now, now, now, EventStatusReceived)

VARIABLES
  cap,       \* MemoryStore.cap
  buf,       \* MemoryStore.buf: slot 0..cap-1 -> Event
  index,     \* MemoryStore.index: id -> slot (a function on the indexed ids)
  count,     \* MemoryStore.count
  head,      \* MemoryStore.head
  mu,        \* MemoryStore.mu: [writer: the caller holding Lock or 0, readers: the RLock holders]
  pc,        \* per caller: where it is in its current operation
  arg,       \* per caller: the arguments of its current operation
  ret,       \* per caller: the value its current operation returns
  hist,      \* history: the events passed to Save so far, in the order the Saves took effect
  heap,      \* the memory the events refer to: address -> the bytes and the map there
  skills     \* Registry.skills: the skills the last Scan found, in the order it found them

vars == <<cap, buf, index, count, head, mu, pc, arg, ret, hist, heap, skills>>
store == <<cap, buf, index, count, head>>

NoArg == [op |-> "none"]
NoRet == [err |-> "none"]

\* ------------------------------------------------------------ the statements
\* delete(s.index, id)
MapDelete(m, id) == [k \in DOMAIN m \ {id} |-> m[k]]

\* s.index[id] = pos
MapPut(m, id, pos) == [k \in DOMAIN m \cup {id} |-> IF k = id THEN pos ELSE m[k]]

\* Mutant of EvictOldest: the full store overwrites the slot and leaves the old
\* id in the index.
EvictOldest_NoDelete(idx, b, h, n, c) == idx

\* memory.go:45-48  if s.count == s.cap { old := s.buf[s.head]; delete(s.index, old.ID) }
EvictOldest(idx, b, h, n, c) ==
  IF n = c THEN MapDelete(idx, b[h].ID) ELSE idx

\* Mutant of PutBuf: writing a slot resets the status of the other records.
PutBuf_ResetOthers(b, h, event) ==
  [i \in DOMAIN b |-> IF i = h THEN event ELSE [b[i] EXCEPT !.Status = EventStatusReceived]]

\* memory.go:50  s.buf[s.head] = event
PutBuf(b, h, event) == [b EXCEPT ![h] = event]

\* Mutant of PutIndex: an id that is already indexed keeps its old slot.
PutIndex_IfAbsent(idx, id, h) == IF id \in DOMAIN idx THEN idx ELSE MapPut(idx, id, h)

\* memory.go:51  s.index[event.ID] = s.head
PutIndex(idx, id, h) == MapPut(idx, id, h)

\* Mutant of AdvanceHead: the write cursor stays where it is.
AdvanceHead_Stuck(h, c) == h

\* memory.go:53  s.head = (s.head + 1) % s.cap
AdvanceHead(h, c) == (h + 1) % c

\* Mutant of IncCount: the count grows past the capacity.
IncCount_Uncapped(n, c) == n + 1

\* memory.go:54-56  if s.count < s.cap { s.count++ }
IncCount(n, c) == IF n < c THEN n + 1 ELSE n

\* memory.go:66,107  pos, ok := s.index[id]: ok
Has(idx, id) == id \in DOMAIN idx

\* memory.go:66-70  the body of Get: the record under id, or ErrNotFound
Get(idx, b, id) ==
  IF ~Has(idx, id)
  THEN [event |-> ZeroEvent, err |-> ErrNotFound]
  ELSE [event |-> b[idx[id]], err |-> Nil]

\* Mutant of UpdateStatusErr: UpdateStatus reports success for every id.
UpdateStatusErr_AlwaysNil(idx, id) == Nil

\* memory.go:107-112  what UpdateStatus returns
UpdateStatusErr(idx, id) == IF ~Has(idx, id) THEN ErrNotFound ELSE Nil

\* Mutant of ClampOffset: a negative offset is negated.
ClampOffset_Abs(offset) == IF offset < 0 THEN 0 - offset ELSE offset

\* memory.go:81-83  if offset < 0 { offset = 0 }
ClampOffset(offset) == IF offset < 0 THEN 0 ELSE offset

\* Mutant of ListPos: the walk starts at head, not at the slot before it.
ListPos_FromHead(h, i, c) == (h - i + c) % c

\* memory.go:89  pos := (s.head - 1 - i + s.cap) % s.cap
ListPos(h, i, c) == (h - 1 - i + c) % c

\* Mutant of LimitReached: the loop stops one record late.
LimitReached_Late(result, limit) == Len(result) = limit + 1

\* memory.go:95  if len(result) == limit { break }
LimitReached(result, limit) == Len(result) = limit

\* memory.go:88-98  the loop of List from iteration i on
RECURSIVE ListLoop(_, _, _, _, _, _, _, _, _)
ListLoop(b, h, n, c, limit, offset, i, skipped, result) ==
  IF ~(i < n) THEN result
  ELSE IF skipped < offset
       THEN ListLoop(b, h, n, c, limit, offset, i + 1, skipped + 1, result)
       ELSE LET appended == Append(result, b[ListPos(h, i, c)])
            IN  IF LimitReached(appended, limit)
                THEN appended
                ELSE ListLoop(b, h, n, c, limit, offset, i + 1, skipped, appended)

\* memory.go:88-98  the number of times the body of List's loop runs from
\* iteration i on, with len records appended so far
RECURSIVE ListIterations(_, _, _, _, _, _)
ListIterations(n, limit, offset, i, skipped, len) ==
  IF ~(i < n) THEN 0
  ELSE IF skipped < offset
       THEN 1 + ListIterations(n, limit, offset, i + 1, skipped + 1, len)
       ELSE IF LimitReached([k \in 1..(len + 1) |-> k], limit)
            THEN 1
            ELSE 1 + ListIterations(n, limit, offset, i + 1, skipped, len + 1)

\* memory.go:78-99  the body of List (a nil slice is the empty sequence)
List(b, h, n, c, limit, offset) ==
  IF limit <= 0 THEN <<>>
  ELSE ListLoop(b, h, n, c, limit, ClampOffset(offset), 0, 0, <<>>)

\* Mutant of SetStatus: the update also stamps the record with a zero time.
SetStatus_Restamp(b, pos, status) == [b EXCEPT ![pos].Status = status, ![pos].Timestamp = 0]

\* memory.go:111  s.buf[pos].Status = status
SetStatus(b, pos, status) == [b EXCEPT ![pos].Status = status]

\* sync.RWMutex: Lock waits until no writer and no reader holds the lock,
\* RLock until no writer holds it.
CanLock(m) == m.writer = 0 /\ m.readers = {}
CanRLock(m) == m.writer = 0

\* ------------------------------------------------------------------- Init
\* memory.go:28-37  NewMemoryStore(capacity) for a capacity > 0
NewMemoryStore(capacity) ==
  /\ cap = capacity
  /\ buf = [i \in 0..(capacity - 1) |-> ZeroEvent]
  /\ index = [k \in {} |-> 0]
  /\ count = 0
  /\ head = 0
  /\ mu = [writer |-> 0, readers |-> {}]

\* The addresses of the slices and maps the events of a behaviour refer to:
\* the event built at time now has its own, at address now.
Addrs == 1..MaxSaves

Init ==
  /\ \E capacity \in Capacities : NewMemoryStore(capacity)
  /\ pc = [p \in Callers |-> "idle"]
  /\ arg = [p \in Callers |-> NoArg]
  /\ ret = [p \in Callers |-> NoRet]
  /\ hist = <<>>
  /\ heap = [a \in Addrs |-> Literal(a)]
  /\ skills = <<>>

\* Save calls made so far: those in hist and those that have not written yet.
SavesCalled ==
  Len(hist) + Cardinality({p \in Callers : pc[p] \in {"Save41", "Save45", "Save50"}})

\* The next reading of the clock (time.Now() in makeEvent and ParseRequest).
Now == Len(hist) + 1

\* What the concurrent callers pass: the handler's outcome forwarded for
\* UpdateStatus, a page of one or of MaxLimit records for List, from the start or after one.
ConcStatus == {EventStatusForwarded}
ConcLimits == {1, MaxLimit}
ConcOffsets == {0, 1}

\* The arguments of a call are drawn where its body first reads them: no other
\* goroutine can see them before.

\* ------------------------------------------------------------------- Save
\* A goroutine calls Save(event) and reaches s.mu.Lock().
CallSave(p) ==
  /\ pc[p] = "idle"
  /\ SavesCalled < MaxSaves
  /\ pc' = [pc EXCEPT ![p] = "Save41"]
  /\ UNCHANGED <<store, mu, arg, ret, hist, heap, skills>>

\* Mutant of SaveLock: Save takes the lock shared (RLock for Lock).
SaveLock_Shared(p) ==
  /\ pc[p] = "Save41"
  /\ CanRLock(mu)
  /\ mu' = [mu EXCEPT !.readers = @ \cup {p}]
  /\ \E id \in Ids : arg' = [arg EXCEPT ![p] = [op |-> "Save", event |-> makeEvent(id, Now)]]
  /\ pc' = [pc EXCEPT ![p] = "Save45"]
  /\ UNCHANGED <<store, ret, hist, heap, skills>>

\* memory.go:41  s.mu.Lock()
SaveLock(p) ==
  /\ pc[p] = "Save41"
  /\ CanLock(mu)
  /\ mu' = [mu EXCEPT !.writer = p]
  /\ \E id \in Ids : arg' = [arg EXCEPT ![p] = [op |-> "Save", event |-> makeEvent(id, Now)]]
  /\ pc' = [pc EXCEPT ![p] = "Save45"]
  /\ UNCHANGED <<store, ret, hist, heap, skills>>

\* memory.go:45-48
SaveEvict(p) ==
  /\ pc[p] = "Save45"
  /\ index' = EvictOldest(index, buf, head, count, cap)
  /\ pc' = [pc EXCEPT ![p] = "Save50"]
  /\ UNCHANGED <<cap, buf, count, head, mu, arg, ret, hist, heap, skills>>

\* memory.go:50
SaveWriteBuf(p) ==
  /\ pc[p] = "Save50"
  /\ buf' = PutBuf(buf, head, arg[p].event)
  /\ hist' = Append(hist, arg[p].event)
  /\ pc' = [pc EXCEPT ![p] = "Save51"]
  /\ UNCHANGED <<cap, index, count, head, mu, arg, ret, heap, skills>>

\* memory.go:51
SaveWriteIndex(p) ==
  /\ pc[p] = "Save51"
  /\ index' = PutIndex(index, arg[p].event.ID, head)
  /\ pc' = [pc EXCEPT ![p] = "Save53"]
  /\ UNCHANGED <<cap, buf, count, head, mu, arg, ret, hist, heap, skills>>

\* memory.go:53
SaveAdvanceHead(p) ==
  /\ pc[p] = "Save53"
  /\ head' = AdvanceHead(head, cap)
  /\ pc' = [pc EXCEPT ![p] = "Save54"]
  /\ UNCHANGED <<cap, buf, index, count, mu, arg, ret, hist, heap, skills>>

\* memory.go:54-56, then memory.go:58 evaluates the result nil
SaveIncCount(p) ==
  /\ pc[p] = "Save54"
  /\ count' = IncCount(count, cap)
  /\ ret' = [ret EXCEPT ![p] = [err |-> Nil]]
  /\ pc' = [pc EXCEPT ![p] = "Save58"]
  /\ UNCHANGED <<cap, buf, index, head, mu, arg, hist, heap, skills>>

\* memory.go:42,58  return nil; the deferred s.mu.Unlock() runs
SaveReturn(p) ==
  /\ pc[p] = "Save58"
  /\ mu' = [mu EXCEPT !.writer = 0]
  /\ pc' = [pc EXCEPT ![p] = "idle"]
  /\ arg' = [arg EXCEPT ![p] = NoArg]
  /\ ret' = [ret EXCEPT ![p] = NoRet]
  /\ UNCHANGED <<store, hist, heap, skills>>

\* -------------------------------------------------------------------- Get
\* A goroutine calls Get(id) and reaches s.mu.RLock().
CallGet(p) ==
  /\ pc[p] = "idle"
  /\ pc' = [pc EXCEPT ![p] = "Get63"]
  /\ UNCHANGED <<store, mu, arg, ret, hist, heap, skills>>

\* Mutant of GetRLock: Get does not wait for the writer to leave.
GetRLock_NoWait(p) ==
  /\ pc[p] = "Get63"
  /\ mu' = [mu EXCEPT !.readers = @ \cup {p}]
  /\ \E id \in Ids : arg' = [arg EXCEPT ![p] = [op |-> "Get", id |-> id]]
  /\ pc' = [pc EXCEPT ![p] = "Get66"]
  /\ UNCHANGED <<store, ret, hist, heap, skills>>

\* memory.go:63  s.mu.RLock()
GetRLock(p) ==
  /\ pc[p] = "Get63"
  /\ CanRLock(mu)
  /\ mu' = [mu EXCEPT !.readers = @ \cup {p}]
  /\ \E id \in Ids : arg' = [arg EXCEPT ![p] = [op |-> "Get", id |-> id]]
  /\ pc' = [pc EXCEPT ![p] = "Get66"]
  /\ UNCHANGED <<store, ret, hist, heap, skills>>

\* memory.go:66-70
GetLookup(p) ==
  /\ pc[p] = "Get66"
  /\ ret' = [ret EXCEPT ![p] = Get(index, buf, arg[p].id)]
  /\ pc' = [pc EXCEPT ![p] = "GetRet"]
  /\ UNCHANGED <<store, mu, arg, hist, heap, skills>>

\* memory.go:64  the deferred s.mu.RUnlock() runs and Get returns
GetReturn(p) ==
  /\ pc[p] = "GetRet"
  /\ mu' = [mu EXCEPT !.readers = @ \ {p}]
  /\ pc' = [pc EXCEPT ![p] = "idle"]
  /\ arg' = [arg EXCEPT ![p] = NoArg]
  /\ ret' = [ret EXCEPT ![p] = NoRet]
  /\ UNCHANGED <<store, hist, heap, skills>>

\* ------------------------------------------------------------------- List
\* A goroutine calls List(limit, offset) and reaches s.mu.RLock().
CallList(p) ==
  /\ pc[p] = "idle"
  /\ pc' = [pc EXCEPT ![p] = "List75"]
  /\ UNCHANGED <<store, mu, arg, ret, hist, heap, skills>>

\* memory.go:75  s.mu.RLock()
ListRLock(p) ==
  /\ pc[p] = "List75"
  /\ CanRLock(mu)
  /\ mu' = [mu EXCEPT !.readers = @ \cup {p}]
  /\ \E limit \in ConcLimits, offset \in ConcOffsets :
       arg' = [arg EXCEPT ![p] = [op |-> "List", limit |-> limit, offset |-> offset]]
  /\ pc' = [pc EXCEPT ![p] = "List78"]
  /\ UNCHANGED <<store, ret, hist, heap, skills>>

\* memory.go:78-99
ListWalk(p) ==
  /\ pc[p] = "List78"
  /\ ret' = [ret EXCEPT ![p] =
       [events |-> List(buf, head, count, cap, arg[p].limit, arg[p].offset), err |-> Nil]]
  /\ pc' = [pc EXCEPT ![p] = "ListRet"]
  /\ UNCHANGED <<store, mu, arg, hist, heap, skills>>

\* memory.go:76  the deferred s.mu.RUnlock() runs and List returns
ListReturn(p) ==
  /\ pc[p] = "ListRet"
  /\ mu' = [mu EXCEPT !.readers = @ \ {p}]
  /\ pc' = [pc EXCEPT ![p] = "idle"]
  /\ arg' = [arg EXCEPT ![p] = NoArg]
  /\ ret' = [ret EXCEPT ![p] = NoRet]
  /\ UNCHANGED <<store, hist, heap, skills>>

\* ----------------------------------------------------------- UpdateStatus
\* A goroutine calls UpdateStatus(id, status) and reaches s.mu.Lock().
CallUpdateStatus(p) ==
  /\ pc[p] = "idle"
  /\ pc' = [pc EXCEPT ![p] = "UpdateStatus104"]
  /\ UNCHANGED <<store, mu, arg, ret, hist, heap, skills>>

\* memory.go:104  s.mu.Lock()
UpdateStatusLock(p) ==
  /\ pc[p] = "UpdateStatus104"
  /\ CanLock(mu)
  /\ mu' = [mu EXCEPT !.writer = p]
  /\ \E id \in Ids, status \in ConcStatus :
       arg' = [arg EXCEPT ![p] = [op |-> "UpdateStatus", id |-> id, status |-> status]]
  /\ pc' = [pc EXCEPT ![p] = "UpdateStatus107"]
  /\ UNCHANGED <<store, ret, hist, heap, skills>>

\* Mutant of UpdateStatusNotFound: the early return leaves without the unlock.
UpdateStatusNotFound_KeepsLock(p) ==
  /\ pc[p] = "UpdateStatus107"
  /\ ~Has(index, arg[p].id)
  /\ pc' = [pc EXCEPT ![p] = "idle"]
  /\ arg' = [arg EXCEPT ![p] = NoArg]
  /\ UNCHANGED <<store, mu, ret, hist, heap, skills>>

\* memory.go:107-110  pos, ok := s.index[id]; if !ok { return ErrNotFound }
UpdateStatusNotFound(p) ==
  /\ pc[p] = "UpdateStatus107"
  /\ ~Has(index, arg[p].id)
  /\ ret' = [ret EXCEPT ![p] = [err |-> UpdateStatusErr(index, arg[p].id)]]
  /\ pc' = [pc EXCEPT ![p] = "UpdateStatusRet"]
  /\ UNCHANGED <<store, mu, arg, hist, heap, skills>>

\* memory.go:107-112  pos, ok := s.index[id]; s.buf[pos].Status = status; return nil
UpdateStatusSet(p) ==
  /\ pc[p] = "UpdateStatus107"
  /\ Has(index, arg[p].id)
  /\ LET pos == index[arg[p].id]
     IN  buf' = SetStatus(buf, pos, arg[p].status)
  /\ ret' = [ret EXCEPT ![p] = [err |-> UpdateStatusErr(index, arg[p].id)]]
  /\ pc' = [pc EXCEPT ![p] = "UpdateStatusRet"]
  /\ UNCHANGED <<cap, index, count, head, mu, arg, hist, heap, skills>>

\* memory.go:105  the deferred s.mu.Unlock() runs and UpdateStatus returns
UpdateStatusReturn(p) ==
  /\ pc[p] = "UpdateStatusRet"
  /\ mu' = [mu EXCEPT !.writer = 0]
  /\ pc' = [pc EXCEPT ![p] = "idle"]
  /\ arg' = [arg EXCEPT ![p] = NoArg]
  /\ ret' = [ret EXCEPT ![p] = NoRet]
  /\ UNCHANGED <<store, hist, heap, skills>>

\* ------------------------------------------------------------------ Count
\* A goroutine calls Count() and reaches s.mu.RLock().
CallCount(p) ==
  /\ pc[p] = "idle"
  /\ pc' = [pc EXCEPT ![p] = "Count117"]
  /\ UNCHANGED <<store, mu, arg, ret, hist, heap, skills>>

\* memory.go:117  s.mu.RLock()
CountRLock(p) ==
  /\ pc[p] = "Count117"
  /\ CanRLock(mu)
  /\ mu' = [mu EXCEPT !.readers = @ \cup {p}]
  /\ arg' = [arg EXCEPT ![p] = [op |-> "Count"]]
  /\ pc' = [pc EXCEPT ![p] = "Count119"]
  /\ UNCHANGED <<store, ret, hist, heap, skills>>

\* memory.go:119  return s.count
CountRead(p) ==
  /\ pc[p] = "Count119"
  /\ ret' = [ret EXCEPT ![p] = [n |-> count, err |-> Nil]]
  /\ pc' = [pc EXCEPT ![p] = "CountRet"]
  /\ UNCHANGED <<store, mu, arg, hist, heap, skills>>

\* memory.go:118  the deferred s.mu.RUnlock() runs and Count returns
CountReturn(p) ==
  /\ pc[p] = "CountRet"
  /\ mu' = [mu EXCEPT !.readers = @ \ {p}]
  /\ pc' = [pc EXCEPT ![p] = "idle"]
  /\ arg' = [arg EXCEPT ![p] = NoArg]
  /\ ret' = [ret EXCEPT ![p] = NoRet]
  /\ UNCHANGED <<store, hist, heap, skills>>

\* ------------------------------------------------------------------- Spec
Next ==
  \E p \in Callers :
    \/ CallSave(p) \/ SaveLock(p) \/ SaveEvict(p) \/ SaveWriteBuf(p)
    \/ SaveWriteIndex(p) \/ SaveAdvanceHead(p) \/ SaveIncCount(p) \/ SaveReturn(p)
    \/ CallGet(p) \/ GetRLock(p) \/ GetLookup(p) \/ GetReturn(p)
    \/ CallList(p) \/ ListRLock(p) \/ ListWalk(p) \/ ListReturn(p)
    \/ CallUpdateStatus(p) \/ UpdateStatusLock(p) \/ UpdateStatusNotFound(p)
    \/ UpdateStatusSet(p) \/ UpdateStatusReturn(p)
    \/ CallCount(p) \/ CountRLock(p) \/ CountRead(p) \/ CountReturn(p)

Spec == Init /\ [][Next]_vars

\* --------------------------------------------------------------- SpecWalk
\* Spec with the loop of List taken one iteration at a time, while the other
\* goroutines call Save and UpdateStatus: arg[p] holds the locals limit,
\* offset, i and skipped of the List, ret[p] the result appended so far.
\* The arguments of the List: no page, a page of one or of MaxLimit records,
\* from the start (a negative offset, which is clamped to 0) or after one.
WalkLimits == {0, 1, MaxLimit}
WalkOffsets == {-1, 1}

\* Mutant of WalkRLock: List does not wait for the writer to leave.
WalkRLock_NoWait(p) ==
  /\ pc[p] = "List75"
  /\ mu' = [mu EXCEPT !.readers = @ \cup {p}]
  /\ \E limit \in WalkLimits, offset \in WalkOffsets :
       arg' = [arg EXCEPT ![p] =
                 [op |-> "List", limit |-> limit, offset |-> offset, i |-> 0, skipped |-> 0]]
  /\ ret' = [ret EXCEPT ![p] = [events |-> <<>>, err |-> Nil]]
  /\ pc' = [pc EXCEPT ![p] = "List78"]
  /\ UNCHANGED <<store, hist, heap, skills>>

\* memory.go:75  s.mu.RLock()
WalkRLock(p) ==
  /\ pc[p] = "List75"
  /\ CanRLock(mu)
  /\ mu' = [mu EXCEPT !.readers = @ \cup {p}]
  /\ \E limit \in WalkLimits, offset \in WalkOffsets :
       arg' = [arg EXCEPT ![p] =
                 [op |-> "List", limit |-> limit, offset |-> offset, i |-> 0, skipped |-> 0]]
  /\ ret' = [ret EXCEPT ![p] = [events |-> <<>>, err |-> Nil]]
  /\ pc' = [pc EXCEPT ![p] = "List78"]
  /\ UNCHANGED <<store, hist, heap, skills>>

\* memory.go:78-87  return nil, nil for limit <= 0; else offset is clamped
\* and the result is made
WalkBegin(p) ==
  /\ pc[p] = "List78"
  /\ IF arg[p].limit <= 0
     THEN /\ pc' = [pc EXCEPT ![p] = "ListRet"]
          /\ UNCHANGED arg
     ELSE /\ pc' = [pc EXCEPT ![p] = "List88"]
          /\ arg' = [arg EXCEPT ![p].offset = ClampOffset(@)]
  /\ UNCHANGED <<store, mu, ret, hist, heap, skills>>

\* memory.go:88-99  one test of the loop condition and, if it holds, one run
\* of the loop's body
WalkStep(p) ==
  /\ pc[p] = "List88"
  /\ IF ~(arg[p].i < count)
     THEN /\ pc' = [pc EXCEPT ![p] = "ListRet"]
          /\ UNCHANGED <<arg, ret>>
     ELSE IF arg[p].skipped < arg[p].offset
     THEN /\ arg' = [arg EXCEPT ![p].skipped = @ + 1, ![p].i = @ + 1]
          /\ UNCHANGED <<pc, ret>>
     ELSE LET appended == Append(ret[p].events, buf[ListPos(head, arg[p].i, cap)])
          IN  /\ ret' = [ret EXCEPT ![p].events = appended]
              /\ IF LimitReached(appended, arg[p].limit)
                 THEN pc' = [pc EXCEPT ![p] = "ListRet"] /\ UNCHANGED arg
                 ELSE arg' = [arg EXCEPT ![p].i = @ + 1] /\ UNCHANGED pc
  /\ UNCHANGED <<store, mu, hist, heap, skills>>

NextWalk ==
  \E p \in Callers :
    \/ CallSave(p) \/ SaveLock(p) \/ SaveEvict(p) \/ SaveWriteBuf(p)
    \/ SaveWriteIndex(p) \/ SaveAdvanceHead(p) \/ SaveIncCount(p) \/ SaveReturn(p)
    \/ CallList(p) \/ WalkRLock(p) \/ WalkBegin(p) \/ WalkStep(p) \/ ListReturn(p)
    \/ CallUpdateStatus(p) \/ UpdateStatusLock(p) \/ UpdateStatusNotFound(p)
    \/ UpdateStatusSet(p) \/ UpdateStatusReturn(p)

SpecWalk == Init /\ [][NextWalk]_vars

\* --------------------------------------------------------------- SpecFair
\* Spec under a fair scheduler. A goroutine that can take its next statement
\* inside an operation takes it (WF). A goroutine waiting at Lock or RLock
\* gets the lock if it is free again and again (SF): sync.RWMutex keeps new
\* readers out while a Lock is waiting, and sync.Mutex hands the lock to a
\* waiter that has waited long. No goroutine is made to call an operation.
Body(p) ==
  \/ SaveEvict(p) \/ SaveWriteBuf(p) \/ SaveWriteIndex(p) \/ SaveAdvanceHead(p)
  \/ SaveIncCount(p) \/ SaveReturn(p)
  \/ GetLookup(p) \/ GetReturn(p)
  \/ ListWalk(p) \/ ListReturn(p)
  \/ UpdateStatusNotFound(p) \/ UpdateStatusSet(p) \/ UpdateStatusReturn(p)
  \/ CountRead(p) \/ CountReturn(p)

Acquire(p) ==
  \/ SaveLock(p) \/ GetRLock(p) \/ ListRLock(p) \/ UpdateStatusLock(p) \/ CountRLock(p)

Fairness == \A p \in Callers : WF_vars(Body(p)) /\ SF_vars(Acquire(p))

SpecFair == Init /\ [][Next]_vars /\ Fairness

\* ---------------------------------------------------------------- SpecSeq
\* One goroutine calls the store, one call after the other: each step is a
\* whole call (Lock or RLock, the body, the deferred unlock), the lock is free
\* between the steps, and arg and ret of that goroutine keep the last call and
\* what it returned.
Main == CHOOSE p \in Callers : \A q \in Callers : p <= q

SeqStatus == {EventStatusForwarded, EventStatusCompleted}

Called(a, r) ==
  /\ arg' = [arg EXCEPT ![Main] = a]
  /\ ret' = [ret EXCEPT ![Main] = r]
  /\ UNCHANGED <<mu, pc>>

\* Mutant of DoSave: a record whose id is in the index replaces the record
\* under that id in its slot.
DoSave_Upsert(event) ==
  /\ Len(hist) < MaxSaves
  /\ CanLock(mu)
  /\ IF Has(index, event.ID)
     THEN /\ buf' = [buf EXCEPT ![index[event.ID]] = event]
          /\ UNCHANGED <<index, head, count>>
     ELSE /\ buf' = PutBuf(buf, head, event)
          /\ index' = PutIndex(EvictOldest(index, buf, head, count, cap), event.ID, head)
          /\ head' = AdvanceHead(head, cap)
          /\ count' = IncCount(count, cap)
  /\ hist' = Append(hist, event)
  /\ Called([op |-> "Save", event |-> event], [err |-> Nil])
  /\ UNCHANGED <<cap, heap, skills>>

\* memory.go:40-59
DoSave(event) ==
  /\ Len(hist) < MaxSaves
  /\ CanLock(mu)
  /\ buf' = PutBuf(buf, head, event)
  /\ index' = PutIndex(EvictOldest(index, buf, head, count, cap), event.ID, head)
  /\ head' = AdvanceHead(head, cap)
  /\ count' = IncCount(count, cap)
  /\ hist' = Append(hist, event)
  /\ Called([op |-> "Save", event |-> event], [err |-> Nil])
  /\ UNCHANGED <<cap, heap, skills>>

\* Mutant of DoGet: looking up an id that is not in the index enters it, with
\* slot 0.
DoGet_Enter(id) ==
  /\ CanRLock(mu)
  /\ Called([op |-> "Get", id |-> id], Get(index, buf, id))
  /\ index' = IF Has(index, id) THEN index ELSE MapPut(index, id, 0)
  /\ UNCHANGED <<cap, buf, count, head, hist, heap, skills>>

\* memory.go:62-71
DoGet(id) ==
  /\ CanRLock(mu)
  /\ Called([op |-> "Get", id |-> id], Get(index, buf, id))
  /\ UNCHANGED <<store, hist, heap, skills>>

\* memory.go:74-100
DoList(limit, offset) ==
  /\ CanRLock(mu)
  /\ Called([op |-> "List", limit |-> limit, offset |-> offset],
            [events |-> List(buf, head, count, cap, limit, offset), err |-> Nil])
  /\ UNCHANGED <<store, hist, heap, skills>>

\* Mutant of DoUpdateStatus: a status update moves the write cursor, as a touch
\* that renews the record's place in the ring would.
DoUpdateStatus_Touch(id, status) ==
  /\ CanLock(mu)
  /\ Called([op |-> "UpdateStatus", id |-> id, status |-> status],
            [err |-> UpdateStatusErr(index, id)])
  /\ IF ~Has(index, id)
     THEN UNCHANGED <<store, hist, heap, skills>>
     ELSE /\ buf' = SetStatus(buf, index[id], status)
          /\ head' = AdvanceHead(head, cap)
          /\ UNCHANGED <<cap, index, count, hist, heap, skills>>

\* memory.go:103-113
DoUpdateStatus(id, status) ==
  /\ CanLock(mu)
  /\ Called([op |-> "UpdateStatus", id |-> id, status |-> status],
            [err |-> UpdateStatusErr(index, id)])
  /\ IF ~Has(index, id)
     THEN UNCHANGED <<store, hist, heap, skills>>
     ELSE /\ buf' = SetStatus(buf, index[id], status)
          /\ UNCHANGED <<cap, index, count, head, hist, heap, skills>>

\* memory.go:116-120
DoCount ==
  /\ CanRLock(mu)
  /\ Called([op |-> "Count"], [n |-> count, err |-> Nil])
  /\ UNCHANGED <<store, hist, heap, skills>>

NextSeq ==
  \/ \E id \in Ids : DoSave(makeEvent(id, Now))
  \/ \E id \in Ids : DoGet(id)
  \/ \E limit \in ListArgs, offset \in ListArgs : DoList(limit, offset)
  \/ \E id \in Ids, status \in SeqStatus : DoUpdateStatus(id, status)
  \/ DoCount

SpecSeq == Init /\ [][NextSeq]_vars

\* ---------------------------------------------------------------- SpecNew
\* The constructor is called with any capacity, and the store it returns, if
\* any, is then used by one goroutine.
ErrInvalidCapacity == "capacity must be greater than zero"

\* The capacities NewMemoryStore is called with (0, -1 and below in the store's tests).
CapacityArgs == (-MaxCap)..MaxCap

\* Mutant of NewMemoryStoreErr: the capacity 0 is accepted.
NewMemoryStoreErr_ZeroAllowed(capacity) == IF capacity < 0 THEN ErrInvalidCapacity ELSE Nil

\* memory.go:29-31,36  the error NewMemoryStore returns
NewMemoryStoreErr(capacity) == IF capacity <= 0 THEN ErrInvalidCapacity ELSE Nil

\* memory.go:30  return nil, ...: no MemoryStore exists, the variables that hold
\* its fields are empty.
NilStore ==
  /\ cap = 0
  /\ buf = <<>>
  /\ index = <<>>
  /\ count = 0
  /\ head = 0
  /\ mu = [writer |-> 0, readers |-> {}]

\* The *MemoryStore the constructor returned is not nil.
NotNil == buf # <<>>

\* s, err := NewMemoryStore(capacity): the first call of the goroutine.
InitNew ==
  /\ \E capacity \in CapacityArgs :
       /\ IF NewMemoryStoreErr(capacity) = Nil THEN NewMemoryStore(capacity) ELSE NilStore
       /\ arg = [p \in Callers |->
                   IF p = Main THEN [op |-> "NewMemoryStore", capacity |-> capacity] ELSE NoArg]
       /\ ret = [p \in Callers |->
                   IF p = Main THEN [err |-> NewMemoryStoreErr(capacity)] ELSE NoRet]
  /\ pc = [p \in Callers |-> "idle"]
  /\ hist = <<>>
  /\ heap = [a \in Addrs |-> Literal(a)]
  /\ skills = <<>>

\* The caller goes on only with a store (if err != nil { t.Fatalf(...) }).
NextNew ==
  \/ \E id \in Ids : NotNil /\ DoSave(makeEvent(id, Now))
  \/ \E id \in Ids : NotNil /\ DoGet(id)
  \/ \E limit \in ListArgs, offset \in ListArgs : NotNil /\ DoList(limit, offset)
  \/ \E id \in Ids, status \in SeqStatus : NotNil /\ DoUpdateStatus(id, status)
  \/ NotNil /\ DoCount

SpecNew == InitNew /\ [][NextNew]_vars

\* -------------------------------------------------------------- SpecAlias
\* One goroutine saves and reads, and writes to the values it holds: the event
\* it passed to Save, the event Get returned, the events of the slice List
\* returned. A types.Event is copied by value, its RawBody and Headers are not:
\* the copy refers to the same bytes and the same map.
MutatedBytes == "{\"test\":false}"
MutatedMap == "X-Test=2"

\* The events the caller holds after its last call.
Held ==
  IF arg[Main].op = "Save" THEN {arg[Main].event}
  ELSE IF arg[Main].op = "Get" THEN {ret[Main].event}
  ELSE IF arg[Main].op = "List"
       THEN {ret[Main].events[i] : i \in 1..Len(ret[Main].events)}
       ELSE {}

\* e.Status = completed on the caller's value: an assignment to a field of the
\* caller's own struct.
CallerSetStatus ==
  /\ \/ /\ arg[Main].op = "Save"
        /\ arg' = [arg EXCEPT ![Main].event.Status = EventStatusCompleted]
        /\ UNCHANGED ret
     \/ /\ arg[Main].op = "Get" /\ ret[Main].err = Nil
        /\ ret' = [ret EXCEPT ![Main].event.Status = EventStatusCompleted]
        /\ UNCHANGED arg
     \/ /\ arg[Main].op = "List"
        /\ \E i \in 1..Len(ret[Main].events) :
             ret' = [ret EXCEPT ![Main].events[i].Status = EventStatusCompleted]
        /\ UNCHANGED arg
  /\ UNCHANGED <<store, mu, pc, hist, heap, skills>>

\* e.Headers["X-Test"] = "2" on a value the caller holds: a write to the map
\* the field refers to (a write to a nil map panics).
CallerWriteHeaders ==
  /\ \E e \in Held :
       /\ e.Headers # 0
       /\ heap' = [heap EXCEPT ![e.Headers].Headers = MutatedMap]
  /\ UNCHANGED <<store, mu, pc, arg, ret, hist, skills>>

\* copy(e.RawBody, ...) on a value the caller holds: a write to the bytes the
\* field refers to.
CallerWriteRawBody ==
  /\ \E e \in Held :
       /\ e.RawBody # 0
       /\ heap' = [heap EXCEPT ![e.RawBody].RawBody = MutatedBytes]
  /\ UNCHANGED <<store, mu, pc, arg, ret, hist, skills>>

NextAlias ==
  \/ \E id \in Ids : DoSave(makeEvent(id, Now))
  \/ \E id \in Ids : DoGet(id)
  \/ \E limit \in ConcLimits : DoList(limit, 0)
  \/ CallerSetStatus
  \/ CallerWriteHeaders
  \/ CallerWriteRawBody

SpecAlias == Init /\ [][NextAlias]_vars

\* ------------------------------------------------------------- SpecServer
\* The gateway: POST /webhooks/{channel} requests are handled by goroutines
\* that share the store and the agent client. A call of the store is one step
\* (it runs under the store's lock); arg[p] holds the request and the locals of
\* the handler with the calls it has made, ret[p] the response it wrote.

\* The id dummyTestChannel.ParseRequest gives every event.
DummyTestID == 1

\* s.channels: the test channel of the server's tests and a Grafana channel
\* without auth token.
Channels == {"dummy", "grafana"}

ContentTypeJSON == "application/json"

\* The requests: to the test channel, to a channel that is not configured, and
\* to the Grafana channel with a good request, a wrong Content-Type, a body
\* that is not JSON. (The router passes only POST to the handler.)
Requests ==
  {[channel |-> "dummy", contentType |-> ContentTypeJSON, validJSON |-> TRUE],
   [channel |-> "unknown", contentType |-> ContentTypeJSON, validJSON |-> TRUE],
   [channel |-> "grafana", contentType |-> ContentTypeJSON, validJSON |-> TRUE],
   [channel |-> "grafana", contentType |-> "text/plain", validJSON |-> TRUE],
   [channel |-> "grafana", contentType |-> ContentTypeJSON, validJSON |-> FALSE]}

\* server_test.go:53-58, grafana.go:31-49  ch.ValidateRequest(r)
ValidateRequest(r) ==
  IF r.channel = "grafana" /\ r.contentType # ContentTypeJSON
  THEN "unsupported Content-Type"
  ELSE Nil

\* server_test.go:60-64, grafana.go:51-63  the error of ch.ParseRequest(r)
ParseRequestErr(r) ==
  IF r.channel = "grafana" /\ ~r.validJSON
  THEN "request body is not valid JSON"
  ELSE Nil

\* server_test.go:66-72, grafana.go:65-72  the event of ch.ParseRequest(r): the
\* test channel sets its fixed id and no Timestamp, the Grafana channel the id
\* uuid.New() returned and time.Now().
ParseRequest(r, id, now) ==
  IF r.channel = "grafana"
  THEN Event(id, "grafana", now, now, now, EventStatusReceived)
  ELSE Event(DummyTestID, "dummy", now, now, 0, EventStatusReceived)

\* uuid.New(): an id that no event has had.
FreshIds == {id \in Ids \ {DummyTestID} : \A k \in 1..Len(hist) : hist[k].ID # id}

\* writeJSON(w, status, data)
Response(status, data) == [code |-> status, body |-> data]

\* Mutant of Rejection: the error of ParseRequest is not looked at.
Rejection_ParseUnchecked(r) ==
  IF r.channel \notin Channels THEN Response(404, [error |-> "unknown channel"])
  ELSE IF ValidateRequest(r) # Nil THEN Response(400, [error |-> ValidateRequest(r)])
  ELSE Response(0, Nil)

\* server.go:86-109  the response of a request that is turned away before the
\* store is called, or code 0 for a request that is accepted.
Rejection(r) ==
  IF r.channel \notin Channels THEN Response(404, [error |-> "unknown channel"])
  ELSE IF ValidateRequest(r) # Nil THEN Response(400, [error |-> ValidateRequest(r)])
  ELSE IF ParseRequestErr(r) # Nil THEN Response(400, [error |-> ParseRequestErr(r)])
  ELSE Response(0, Nil)

\* server.go:84-109  a request is turned away: 404 or 400, and the handler returns.
WebhookReject(p, r) ==
  /\ pc[p] = "idle"
  /\ Rejection(r).code # 0
  /\ arg' = [arg EXCEPT ![p] = [op |-> "webhook", req |-> r, calls |-> <<>>, logs |-> <<>>]]
  /\ ret' = [ret EXCEPT ![p] = Rejection(r)]
  /\ UNCHANGED <<store, mu, pc, hist, heap, skills>>

\* server.go:84-118  a request is accepted: the channel is found, validates and
\* parses it, and the handler calls s.store.Save(*evt). MemoryStore.Save
\* returns nil; were it an error, the handler would answer 500 and return.
WebhookSave(p, r, id) ==
  /\ pc[p] = "idle"
  /\ Rejection(r).code = 0
  /\ Len(hist) < MaxSaves
  /\ r.channel = "grafana" => id \in FreshIds
  /\ r.channel # "grafana" => id = DummyTestID
  /\ CanLock(mu)
  /\ LET evt == ParseRequest(r, id, Now)
         err == Nil
     IN  /\ buf' = PutBuf(buf, head, evt)
         /\ index' = PutIndex(EvictOldest(index, buf, head, count, cap), evt.ID, head)
         /\ head' = AdvanceHead(head, cap)
         /\ count' = IncCount(count, cap)
         /\ hist' = Append(hist, evt)
         /\ arg' = [arg EXCEPT ![p] =
               [op |-> "webhook", req |-> r, evt |-> evt, n |-> Len(hist) + 1,
                calls |-> <<[call |-> "Save", event |-> evt, err |-> err]>>,
                logs |-> IF err # Nil
                         THEN <<[msg |-> "failed to save event", error |-> err]>>
                         ELSE <<>>]]
         /\ ret' = [ret EXCEPT ![p] =
               IF err # Nil THEN Response(500, [error |-> "failed to store event"]) ELSE NoRet]
         /\ pc' = [pc EXCEPT ![p] = IF err # Nil THEN "idle" ELSE "Webhook129"]
  /\ UNCHANGED <<cap, mu, heap, skills>>

\* agent.Response as the agent returns it for an event
AgentResponse(evt) == [Status |-> "ok", EventID |-> evt.ID]

\* Mutant of WebhookForward: when the agent fails the handler answers 502 at
\* once, without the call of UpdateStatus.
WebhookForward_FailFast(p, ok) ==
  /\ pc[p] = "Webhook129"
  /\ arg' = [arg EXCEPT ![p] =
        [@ EXCEPT !.calls = Append(@, [call |-> "Forward", event |-> arg[p].evt,
                                       err |-> IF ok THEN Nil ELSE "agent error"])]]
  /\ pc' = [pc EXCEPT ![p] = IF ok THEN "Webhook139" ELSE "idle"]
  /\ ret' = [ret EXCEPT ![p] =
        IF ok THEN @ ELSE Response(502, [error |-> "agent forwarding failed"])]
  /\ UNCHANGED <<store, mu, hist, heap, skills>>

\* server.go:121-130  the envelope is built and s.agent.Forward is called; the
\* agent answers or fails.
WebhookForward(p, ok) ==
  /\ pc[p] = "Webhook129"
  /\ arg' = [arg EXCEPT ![p] =
        [@ EXCEPT !.calls = Append(@, [call |-> "Forward", event |-> arg[p].evt,
                                       err |-> IF ok THEN Nil ELSE "agent error"])]]
  /\ pc' = [pc EXCEPT ![p] = IF ok THEN "Webhook139" ELSE "Webhook131"]
  /\ UNCHANGED <<store, mu, ret, hist, heap, skills>>

\* Mutant of HandlerUpdateStatus: an error of UpdateStatus is answered with 500.
HandlerUpdateStatus_Escalate(p, status, log, response) ==
  /\ CanLock(mu)
  /\ IF ~Has(index, arg[p].evt.ID)
     THEN UNCHANGED buf
     ELSE buf' = SetStatus(buf, index[arg[p].evt.ID], status)
  /\ arg' = [arg EXCEPT ![p] =
        [@ EXCEPT !.calls = Append(@, [call |-> "UpdateStatus", id |-> arg[p].evt.ID,
                                       status |-> status,
                                       err |-> UpdateStatusErr(index, arg[p].evt.ID)]),
                  !.logs = @ \o log]]
  /\ ret' = [ret EXCEPT ![p] =
        IF UpdateStatusErr(index, arg[p].evt.ID) # Nil
        THEN Response(500, [error |-> "failed to update event"])
        ELSE response]
  /\ pc' = [pc EXCEPT ![p] = "idle"]
  /\ UNCHANGED <<cap, index, count, head, mu, hist, heap, skills>>

\* The call s.store.UpdateStatus(id, status) of a handler and what it leaves of
\* it in the handler's record: the error is assigned to _. log holds the
\* s.logger calls of the branch (the message and the value logged as "error").
HandlerUpdateStatus(p, status, log, response) ==
  /\ CanLock(mu)
  /\ IF ~Has(index, arg[p].evt.ID)
     THEN UNCHANGED buf
     ELSE buf' = SetStatus(buf, index[arg[p].evt.ID], status)
  /\ arg' = [arg EXCEPT ![p] =
        [@ EXCEPT !.calls = Append(@, [call |-> "UpdateStatus", id |-> arg[p].evt.ID,
                                       status |-> status,
                                       err |-> UpdateStatusErr(index, arg[p].evt.ID)]),
                  !.logs = @ \o log]]
  /\ ret' = [ret EXCEPT ![p] = response]
  /\ pc' = [pc EXCEPT ![p] = "idle"]
  /\ UNCHANGED <<cap, index, count, head, mu, hist, heap, skills>>

\* server.go:130-137  Forward failed: UpdateStatus(evt.ID, failed), the error
\* is logged, 502.
WebhookForwardFailed(p) ==
  /\ pc[p] = "Webhook131"
  /\ HandlerUpdateStatus(p, EventStatusFailed,
                         <<[msg |-> "agent forward failed", error |-> arg[p].calls[2].err]>>,
                         Response(502, [error |-> "agent forwarding failed"]))

\* Mutant of WebhookForwarded: the handler marks the event completed when the
\* agent has answered.
WebhookForwarded_Completed(p) ==
  /\ pc[p] = "Webhook139"
  /\ HandlerUpdateStatus(p, EventStatusCompleted, <<>>,
                         Response(200, AgentResponse(arg[p].evt)))

\* server.go:139-141  Forward succeeded: UpdateStatus(evt.ID, forwarded), 200
\* with the agent's response.
WebhookForwarded(p) ==
  /\ pc[p] = "Webhook139"
  /\ HandlerUpdateStatus(p, EventStatusForwarded, <<>>,
                         Response(200, AgentResponse(arg[p].evt)))

NextServer ==
  \E p \in Callers :
    \/ \E r \in Requests : WebhookReject(p, r)
    \/ \E r \in Requests, id \in Ids : WebhookSave(p, r, id)
    \/ \E ok \in BOOLEAN : WebhookForward(p, ok)
    \/ WebhookForwardFailed(p)
    \/ WebhookForwarded(p)

SpecServer == Init /\ [][NextServer]_vars

\* -------------------------------------------------------------- SpecAdmin
\* The gateway as the tests of its listing endpoint drive it: one client sends
\* POST /webhooks/dummy and GET /admin/events, each request answered before the
\* next is sent (TestAdminEventsAfterWebhook), the agent being the StubClient
\* that answers every event. A step is a whole request.

\* server.go:151  the limit handleAdminEvents passes to List
AdminEventsLimit == 50

\* The stores: the small ones and one that holds more than a page.
AdminCapacities == Capacities \cup {AdminEventsLimit + 1}

\* The most webhooks posted: enough to evict from every store.
MaxServed == AdminEventsLimit + 2

\* The request of TestAdminEventsAfterWebhook.
DummyRequest == [channel |-> "dummy", contentType |-> ContentTypeJSON, validJSON |-> TRUE]

InitAdmin ==
  /\ \E capacity \in AdminCapacities : NewMemoryStore(capacity)
  /\ pc = [p \in Callers |-> "idle"]
  /\ arg = [p \in Callers |-> NoArg]
  /\ ret = [p \in Callers |-> NoRet]
  /\ hist = <<>>
  /\ heap = [a \in 1..MaxServed |-> Literal(a)]
  /\ skills = <<>>

\* server.go:83-142  POST /webhooks/dummy with no other request under way:
\* Save of the parsed event, Forward, UpdateStatus(id, forwarded), 200.
handleWebhook(p) ==
  /\ pc[p] = "idle"
  /\ CanLock(mu)
  /\ Len(hist) < MaxServed
  /\ LET evt == ParseRequest(DummyRequest, DummyTestID, Now)
         saved == PutBuf(buf, head, evt)
         idx == PutIndex(EvictOldest(index, buf, head, count, cap), evt.ID, head)
     IN  /\ buf' = SetStatus(saved, idx[evt.ID], EventStatusForwarded)
         /\ index' = idx
         /\ head' = AdvanceHead(head, cap)
         /\ count' = IncCount(count, cap)
         /\ hist' = Append(hist, evt)
         /\ arg' = [arg EXCEPT ![p] =
               [op |-> "webhook", req |-> DummyRequest, evt |-> evt, n |-> Len(hist) + 1,
                calls |-> <<[call |-> "Save", event |-> evt, err |-> Nil],
                            [call |-> "Forward", event |-> evt, err |-> Nil],
                            [call |-> "UpdateStatus", id |-> evt.ID,
                             status |-> EventStatusForwarded,
                             err |-> UpdateStatusErr(idx, evt.ID)]>>,
                logs |-> <<>>]]
         /\ ret' = [ret EXCEPT ![p] = Response(200, AgentResponse(evt))]
  /\ UNCHANGED <<cap, mu, pc, heap, skills>>

\* Mutant of handleAdminEvents: count is the number of records in the store.
handleAdminEvents_CountAll(p) ==
  /\ pc[p] = "idle"
  /\ CanRLock(mu)
  /\ arg' = [arg EXCEPT ![p] =
        [op |-> "adminEvents",
         calls |-> <<[call |-> "List", limit |-> AdminEventsLimit, offset |-> 0, err |-> Nil]>>]]
  /\ ret' = [ret EXCEPT ![p] =
        Response(200, [events |-> List(buf, head, count, cap, AdminEventsLimit, 0),
                       count |-> count])]
  /\ UNCHANGED <<store, mu, pc, hist, heap, skills>>

\* server.go:150-162  GET /admin/events: s.store.List(50, 0), which returns a
\* nil error, and 200 with the events and their number.
handleAdminEvents(p) ==
  /\ pc[p] = "idle"
  /\ CanRLock(mu)
  /\ LET events == List(buf, head, count, cap, AdminEventsLimit, 0)
         err == Nil
     IN  /\ arg' = [arg EXCEPT ![p] =
               [op |-> "adminEvents",
                calls |-> <<[call |-> "List", limit |-> AdminEventsLimit, offset |-> 0,
                             err |-> err]>>]]
         /\ ret' = [ret EXCEPT ![p] =
               IF err # Nil
               THEN Response(500, [error |-> "failed to list events"])
               ELSE Response(200, [events |-> events, count |-> Len(events)])]
  /\ UNCHANGED <<store, mu, pc, hist, heap, skills>>

NextAdmin ==
  \/ handleWebhook(Main)
  \/ handleAdminEvents(Main)

SpecAdmin == InitAdmin /\ [][NextAdmin]_vars

\* ---------------------------------------------------------------- SpecRun
\* The run command: the goroutine Main loads the configuration, constructs
\* the store and the server and waits in the select of run.go:82 while the
\* server's goroutines handle requests; or it returns the error of a step.

\* config.go:504, 513, 525  (src/unnamed/part_002)
DefaultPort == 8080
DefaultCapacity == 1000
MaxPort == 65535

\* What the YAML file gives for store.capacity and server.port; 0 is also what
\* an omitted key leaves in the struct. readable: os.ReadFile and
\* yaml.Unmarshal succeed.
ConfigFiles ==
  [readable : BOOLEAN,
   capacity : (-MaxCap)..MaxCap,
   port : {0, MaxPort, MaxPort + 1}]

\* part_002:499-521  Config.defaults
defaults(c) ==
  [c EXCEPT !.port = IF @ = 0 THEN DefaultPort ELSE @,
            !.capacity = IF @ = 0 THEN DefaultCapacity ELSE @]

\* Mutant of validate: the capacity is not checked.
validate_AnyCapacity(c) ==
  IF c.port < 1 \/ c.port > MaxPort THEN "server.port must be between 1 and 65535"
  ELSE Nil

\* part_002:524-543  Config.validate
validate(c) ==
  IF c.port < 1 \/ c.port > MaxPort THEN "server.port must be between 1 and 65535"
  ELSE IF c.capacity < 0 THEN "store.capacity must be non-negative"
  ELSE Nil

\* part_002:555-574  config.Load: the configuration (the file's own values when
\* no *Config is returned) and the error
Load(file) ==
  IF ~file.readable THEN [cfg |-> file, err |-> "reading config"]
  ELSE [cfg |-> defaults(file), err |-> validate(defaults(file))]

\* run.go:34-45  runGateway up to the store, and on to the select of run.go:82
InitRun ==
  /\ \E file \in ConfigFiles :
       LET l == Load(file)
           err == IF l.err # Nil THEN Nil ELSE NewMemoryStoreErr(l.cfg.capacity)
       IN  /\ IF l.err = Nil /\ err = Nil THEN NewMemoryStore(l.cfg.capacity) ELSE NilStore
           /\ arg = [p \in Callers |->
                       IF p = Main THEN [op |-> "run", file |-> file] ELSE NoArg]
           /\ ret = [p \in Callers |->
                       IF p # Main THEN NoRet
                       ELSE IF l.err # Nil THEN [err |-> l.err, at |-> "loading config"]
                       ELSE IF err # Nil THEN [err |-> err, at |-> "creating store"]
                       ELSE [err |-> Nil, at |-> ""]]
           /\ pc = [p \in Callers |->
                      IF p # Main THEN "idle"
                      ELSE IF l.err = Nil /\ err = Nil THEN "Run82" ELSE "returned"]
  /\ hist = <<>>
  /\ heap = [a \in Addrs |-> Literal(a)]
  /\ skills = <<>>

\* The server serves only when run has come to start it.
NextRun == pc[Main] = "Run82" /\ NextServer

SpecRun == InitRun /\ [][NextRun]_vars

\* --------------------------------------------------------- SpecMiddleware
\* A request on its way through the router's middleware stack and back. chi
\* runs the middlewares in the order of the r.Use calls, the first one
\* outermost. pc[p] is "Enter" while the request goes inwards and "Leave" while
\* the calls return (or a panic unwinds); arg[p] holds the request, the
\* handlers entered so far, those that have not returned, the request id in
\* the context, the X-Request-ID response header, the status a statusWriter
\* holds, the value of a panic under way, the response written and the log.

\* server.go:50-52  r.Use(RequestID); r.Use(Logging(logger)); r.Use(Recovery(logger))
Middlewares == <<"RequestID", "Logging", "Recovery">>

\* middleware.go:30  uuid.New().String()
GeneratedID == "uuid"

\* The requests: to /health and to a route whose handler panics (the handler
\* of TestRecoveryMiddleware), with and without an X-Request-ID header.
HTTPRequests == [path : {"/health", "/panic"}, requestID : {"", "test-id-123"}]

\* The middlewares around the innermost frame: those whose w and r it was given.
Outer(frames) == {frames[i] : i \in 1..(Len(frames) - 1)}

\* middleware.go:17-22  RequestIDFromContext(r.Context()) in the innermost frame
RequestIDFromContext(a) == IF "RequestID" \in Outer(a.frames) THEN a.ctx ELSE ""

\* srv.ServeHTTP(rec, req): a request arrives.
ServeHTTP(p, r) ==
  /\ pc[p] = "idle"
  /\ arg' = [arg EXCEPT ![p] =
        [op |-> "http", req |-> r, entered |-> <<>>, frames |-> <<>>, ctx |-> "",
         header |-> "", sw |-> 0, panic |-> Nil, resp |-> NoRet, logs |-> <<>>]]
  /\ ret' = [ret EXCEPT ![p] = NoRet]
  /\ pc' = [pc EXCEPT ![p] = "Enter"]
  /\ UNCHANGED <<store, mu, hist, heap, skills>>

\* middleware.go:28-34, 42-44, 61-73  the next middleware is entered: RequestID
\* takes the id of the header or a new one and puts it in the context and in
\* the response header, Logging wraps the writer, Recovery defers its recover.
EnterMiddleware(p) ==
  /\ pc[p] = "Enter"
  /\ Len(arg[p].frames) < Len(Middlewares)
  /\ LET m == Middlewares[Len(arg[p].frames) + 1]
         id == IF arg[p].req.requestID = "" THEN GeneratedID ELSE arg[p].req.requestID
     IN  arg' = [arg EXCEPT ![p] =
           [@ EXCEPT !.entered = Append(@, m),
                     !.frames = Append(@, m),
                     !.ctx = IF m = "RequestID" THEN id ELSE @,
                     !.header = IF m = "RequestID" THEN id ELSE @,
                     !.sw = IF m = "Logging" THEN 200 ELSE @]]
  /\ UNCHANGED <<store, mu, pc, ret, hist, heap, skills>>

\* server.go:145-147, server_test.go:299-301  the route's handler runs: it
\* writes its response, or it panics.
RouteHandler(p) ==
  /\ pc[p] = "Enter"
  /\ Len(arg[p].frames) = Len(Middlewares)
  /\ arg' = [arg EXCEPT ![p] =
        IF arg[p].req.path = "/panic"
        THEN [@ EXCEPT !.entered = Append(@, "Router"), !.panic = "test panic"]
        ELSE [@ EXCEPT !.entered = Append(@, "Router"),
                       !.resp = Response(200, [status |-> "ok"]),
                       !.sw = IF "Logging" \in Outer(Append(arg[p].frames, "Router"))
                              THEN 200 ELSE @]]
  /\ pc' = [pc EXCEPT ![p] = "Leave"]
  /\ UNCHANGED <<store, mu, ret, hist, heap, skills>>

\* Mutant of Recovery: the deferred function logs the panic and panics again.
Recovery_Rethrow(a) ==
  IF a.panic = Nil THEN a
  ELSE [a EXCEPT !.logs = Append(@, [msg |-> "panic recovered", error |-> a.panic,
                                     request_id |-> RequestIDFromContext(a)])]

\* middleware.go:61-72  the deferred function of Recovery: a panic is
\* recovered, logged and answered with 500.
Recovery(a) ==
  IF a.panic = Nil THEN a
  ELSE [a EXCEPT !.logs = Append(@, [msg |-> "panic recovered", error |-> a.panic,
                                     request_id |-> RequestIDFromContext(a)]),
                 !.resp = Response(500, [error |-> "internal server error"]),
                 !.sw = IF "Logging" \in Outer(a.frames) THEN 500 ELSE @,
                 !.panic = Nil]

\* middleware.go:45-51  Logging after next.ServeHTTP has returned; a panic
\* passes the statement by.
Logging(a) ==
  IF a.panic # Nil THEN a
  ELSE [a EXCEPT !.logs = Append(@, [msg |-> "request", status |-> a.sw,
                                     request_id |-> RequestIDFromContext(a)])]

\* The innermost middleware returns, or the panic unwinds it.
LeaveMiddleware(p) ==
  /\ pc[p] = "Leave"
  /\ arg[p].frames # <<>>
  /\ LET m == arg[p].frames[Len(arg[p].frames)]
         a == IF m = "Recovery" THEN Recovery(arg[p])
              ELSE IF m = "Logging" THEN Logging(arg[p])
              ELSE arg[p]
     IN  arg' = [arg EXCEPT ![p] =
           [a EXCEPT !.frames = SubSeq(@, 1, Len(@) - 1)]]
  /\ UNCHANGED <<store, mu, pc, ret, hist, heap, skills>>

\* ServeHTTP returns to its caller with the response written, or the panic
\* reaches the caller.
ServeHTTPReturn(p) ==
  /\ pc[p] = "Leave"
  /\ arg[p].frames = <<>>
  /\ ret' = [ret EXCEPT ![p] = IF arg[p].panic # Nil THEN NoRet ELSE arg[p].resp]
  /\ pc' = [pc EXCEPT ![p] = IF arg[p].panic # Nil THEN "panicked" ELSE "idle"]
  /\ UNCHANGED <<store, mu, arg, hist, heap, skills>>

NextMiddleware ==
  \E p \in Callers :
    \/ \E r \in HTTPRequests : ServeHTTP(p, r)
    \/ EnterMiddleware(p)
    \/ RouteHandler(p)
    \/ LeaveMiddleware(p)
    \/ ServeHTTPReturn(p)

SpecMiddleware == Init /\ [][NextMiddleware]_vars

\* ------------------------------------------------------------- SpecFilter
\* The skill registry: Scan replaces the list of discovered skills, Filter
\* reads it. One goroutine calls them, as run.go:52-58 and the tests do.

\* The names in the front matter of the SKILL.md files, and one more that an
\* allowlist may name and no file has.
SkillNames == {"a", "b", "c"}
AllowNames == SkillNames \cup {"nonexistent"}

\* types.Skill of the file found i-th (two files may give the same name)
Skill(name, i) == [Name |-> name, Description |-> name, Path |-> i]

\* What a Scan can find: up to MaxSkills files, in the order of the walk.
Discovered ==
  UNION {{[i \in 1..n |-> Skill(names[i], i)] : names \in [1..n -> SkillNames]} :
           n \in 0..MaxSkills}

\* The allowlists of the configuration (nil and the empty slice are <<>>).
Allowlists == UNION {[1..n -> AllowNames] : n \in 0..MaxAllow}

\* registry.go:28-54  Scan: r.skills = nil, then every skill found is appended
Scan(found) ==
  /\ skills' = found
  /\ Called([op |-> "Scan", found |-> found], [err |-> Nil])
  /\ UNCHANGED <<store, hist, heap>>

\* Mutant of FilterSkills: an empty allowlist allows nothing.
FilterSkills_EmptyAllowsNone(sks, allowlist) ==
  LET allowed == {allowlist[i] : i \in 1..Len(allowlist)}
      Test(sk) == sk.Name \in allowed
  IN  SelectSeq(sks, Test)

\* registry.go:64-79  the body of Filter: r.skills itself for an empty
\* allowlist, else the skills whose name is a key of the map allowed, appended
\* in the order of r.skills (a nil slice is the empty sequence)
FilterSkills(sks, allowlist) ==
  IF Len(allowlist) = 0 THEN sks
  ELSE LET allowed == {allowlist[i] : i \in 1..Len(allowlist)}
           Test(sk) == sk.Name \in allowed
       IN  SelectSeq(sks, Test)

\* registry.go:63-80
Filter(allowlist) ==
  /\ Called([op |-> "Filter", receiver |-> skills, allowlist |-> allowlist],
            [filtered |-> FilterSkills(skills, allowlist)])
  /\ UNCHANGED <<store, hist, heap, skills>>

NextFilter ==
  \/ \E found \in Discovered : Scan(found)
  \/ \E allowlist \in Allowlists : Filter(allowlist)

SpecFilter == Init /\ [][NextFilter]_vars

\* ============================================================ the claims
\* What the history says of a state in which no Save is inside its body.
Min(a, b) == IF a < b THEN a ELSE b
Max(a, b) == IF a < b THEN b ELSE a

\* The positions in hist of the records whose slot has not been written again,
\* and of the records whose slot has (the evicted ones).
Retained == (Len(hist) - count + 1)..Len(hist)
Evicted == 1..(Len(hist) - count)

\* e is the record saved as h: every field but Status, which UpdateStatus may
\* have changed since, is the one passed to Save (the Timestamps of the saved
\* events differ, so this names one record of hist).
SameButStatus(e, h) == [e EXCEPT !.Status = h.Status] = h

\* Get on the id of the k-th saved record returns that record.
Retrievable(k) ==
  LET r == Get(index, buf, hist[k].ID)
  IN  r.err = Nil /\ SameButStatus(r.event, hist[k])

\* The retained records, newest first, as the history places them: the k-th
\* Save wrote slot (k - 1) % cap.
NewestFirst == [i \in 1..count |-> buf[(Len(hist) - i) % cap]]

\* C1: after any sequence of Save calls on a store of capacity C, 0 <= Count()
\* <= C and Count() is the number of non-evicted records, that is, the number
\* of records Get can still retrieve.
C1_CountIsRetrievable ==
  /\ 0 <= count /\ count <= cap
  /\ count = Cardinality(Retained)
  /\ count = Cardinality({k \in 1..Len(hist) : Retrievable(k)})

\* C2: after C + k Saves (k >= 1) into an empty store of capacity C, Get
\* retrieves each of the last C saved records, and Get on each of the first k
\* records returns NotFound (read here in the claim's favour: unless a later
\* Save passed that record's id again).
C2_OldestFirstEviction ==
  Len(hist) > cap =>
    /\ \A k \in (Len(hist) - cap + 1)..Len(hist) : Retrievable(k)
    /\ \A k \in 1..(Len(hist) - cap) :
         (\A j \in (k + 1)..Len(hist) : hist[j].ID # hist[k].ID)
           => Get(index, buf, hist[k].ID).err = ErrNotFound

\* C3: once the k-th saved record has been evicted (by the Save number k + cap),
\* and as long as no Save from that one on passed its id again, the id is not in
\* the index: Get and UpdateStatus on it return NotFound. And a Get that
\* succeeds returns a record of the id it was asked for.
C3_EvictedIdNotFound ==
  /\ \A k \in Evicted :
       (\A j \in (k + cap)..Len(hist) : hist[j].ID # hist[k].ID)
         => /\ ~Has(index, hist[k].ID)
            /\ Get(index, buf, hist[k].ID) = [event |-> ZeroEvent, err |-> ErrNotFound]
            /\ UpdateStatusErr(index, hist[k].ID) = ErrNotFound
  /\ \A id \in Ids :
       Get(index, buf, id).err = Nil => Get(index, buf, id).event.ID = id

\* C3 witness: the store has evicted a record whose id was not saved again, and
\* the last call, a Get on that id, returned NotFound.
C3_Witness ==
  /\ arg[Main].op = "Get"
  /\ ret[Main].err = ErrNotFound
  /\ \E k \in Evicted :
       /\ hist[k].ID = arg[Main].id
       /\ \A j \in (k + 1)..Len(hist) : hist[j].ID # hist[k].ID

\* An operation that has taken the lock and is about to read the store.
Observing(p) == pc[p] \in {"Save45", "UpdateStatus107", "Get66", "List78", "Count119"}

\* Every indexed id maps to a slot that holds a stored record of that id.
IndexConsistent ==
  \A id \in DOMAIN index :
    /\ index[id] \in 0..(count - 1)
    /\ buf[index[id]].ID = id

\* C4: whatever the interleaving of Save, Get, UpdateStatus, List and Count,
\* the state an operation observes has 0 <= count <= cap and an index whose
\* every id maps to a slot holding a stored record of that id.
C4_ObserversSeeConsistentStore ==
  \A p \in Callers :
    Observing(p) => /\ 0 <= count /\ count <= cap
                    /\ IndexConsistent

\* C4 witness: a Get observes a store that has evicted a record while another
\* goroutine has called Save and waits for the lock.
C4_Witness ==
  \E p, q \in Callers :
    /\ pc[p] = "Get66" /\ pc[q] = "Save41"
    /\ Len(hist) > cap

\* A caller inside the body of a writing, of a reading operation.
InWriter(p) ==
  pc[p] \in {"Save45", "Save50", "Save51", "Save53", "Save54", "Save58",
             "UpdateStatus107", "UpdateStatusRet"}
InReader(p) ==
  pc[p] \in {"Get66", "GetRet", "List78", "ListRet", "Count119", "CountRet"}

\* C5: Save and UpdateStatus hold the lock exclusively from the first to the
\* last statement of their body, Get, List and Count hold it shared; so no
\* writer is inside its body while any other operation is inside its own.
C5_LockDiscipline ==
  /\ \A p \in Callers :
       /\ InWriter(p) => /\ mu.writer = p /\ mu.readers = {}
                         /\ \A q \in Callers \ {p} : ~InWriter(q) /\ ~InReader(q)
       /\ InReader(p) => p \in mu.readers /\ mu.writer = 0
  /\ mu.writer # 0 => InWriter(mu.writer)
  /\ \A p \in mu.readers : InReader(p)

\* C5 witness: two readers are inside their bodies at the same time, a List
\* and a Get.
C5_Witness ==
  \E p, q \in Callers :
    /\ p # q /\ pc[p] = "List78" /\ pc[q] = "GetRet"
    /\ mu.readers = {p, q}

\* C6: a Save that returned before a Get or a List began is visible to it: Get
\* on the id of a record that is still retained finds a record of that id, and
\* List(n, 0), n >= 1, returns the retained records from the last saved one on.
\* (In SpecSeq every Save in hist returned before the last call began.)
C6_ReturnedSaveIsVisible ==
  /\ arg[Main].op = "Get" =>
       ((\E k \in Retained : hist[k].ID = arg[Main].id)
          => ret[Main].err = Nil /\ ret[Main].event.ID = arg[Main].id)
  /\ (arg[Main].op = "List" /\ arg[Main].limit >= 1 /\ arg[Main].offset = 0) =>
       /\ Len(ret[Main].events) = Min(arg[Main].limit, count)
       /\ \A i \in 1..Len(ret[Main].events) :
            SameButStatus(ret[Main].events[i], hist[Len(hist) - i + 1])

\* C7: right after Save(r), Get(r.ID) succeeds and returns a record equal to r
\* in every field.
C7_SaveGetRoundTrip ==
  arg[Main].op = "Save" =>
    Get(index, buf, arg[Main].event.ID) = [event |-> arg[Main].event, err |-> Nil]

\* C7 witness: the last call saved, into a full store, a record whose id
\* another retained record has too.
C7_Witness ==
  /\ arg[Main].op = "Save"
  /\ Len(hist) > cap
  /\ \E k \in Retained : k < Len(hist) /\ hist[k].ID = arg[Main].event.ID

\* C8: after r1..rN were saved in that order (N above the capacity or not),
\* List(n, 0) with n >= Count() returns the Count() retained records, newest
\* first: rN, rN-1, ..., r(N-Count()+1), each once.
C8_ListNewestFirst ==
  \A n \in count..(cap + 1) :
    LET l == List(buf, head, count, cap, n, 0)
    IN  /\ Len(l) = count
        /\ \A i \in 1..count :
             /\ SameButStatus(l[i], hist[Len(hist) - i + 1])
             /\ l[i] = NewestFirst[i]

\* C8 witness: more records than the capacity (at least 2) were saved, and the
\* last call, List(n, 0) with n >= Count(), returned Count() records.
C8_Witness ==
  /\ arg[Main].op = "List" /\ arg[Main].offset = 0 /\ arg[Main].limit >= count
  /\ cap >= 2 /\ Len(hist) > cap
  /\ Len(ret[Main].events) = cap

\* C9: for limit >= 1 and offset >= 0, List(limit, offset) is the slice of the
\* newest-first retained records that starts at offset and has
\* min(limit, max(0, Count() - offset)) records; it is empty for offset >=
\* Count() and for limit <= 0; and it holds no evicted record.
C9_ListPagination ==
  \A limit \in ListArgs, offset \in ListArgs :
    LET l == List(buf, head, count, cap, limit, offset)
        n == Min(limit, Max(0, count - offset))
    IN  /\ limit <= 0 => l = <<>>
        /\ (limit >= 1 /\ offset >= 0) =>
             /\ Len(l) = n
             /\ \A j \in 1..n : l[j] = NewestFirst[offset + j]
             /\ offset >= count => l = <<>>
        /\ \A j \in 1..Len(l) : \E k \in Retained : SameButStatus(l[j], hist[k])

\* C9 witness: the last call, List(1, 1) on a store that has evicted a record
\* and holds at least 2, returned the second newest record alone.
C9_Witness ==
  /\ arg[Main].op = "List" /\ arg[Main].limit = 1 /\ arg[Main].offset = 1
  /\ count >= 2 /\ Len(hist) > cap
  /\ Len(ret[Main].events) = 1
  /\ SameButStatus(ret[Main].events[1], hist[Len(hist) - 1])

\* C10: for every limit and every offset < 0, List(limit, offset) returns what
\* List(limit, 0) returns, and no error.
C10_NegativeOffsetIsZero ==
  /\ \A limit \in ListArgs, offset \in (-(MaxLimit + 1))..(-1) :
       List(buf, head, count, cap, limit, offset) = List(buf, head, count, cap, limit, 0)
  /\ (arg[Main].op = "List" /\ arg[Main].offset < 0) =>
       /\ ret[Main].err = Nil
       /\ ret[Main].events = List(buf, head, count, cap, arg[Main].limit, 0)

\* C10 witness: the last call, List with offset -1 and limit >= 2, returned two
\* records.
C10_Witness ==
  /\ arg[Main].op = "List" /\ arg[Main].offset < 0 /\ arg[Main].limit >= 2
  /\ Len(ret[Main].events) = 2

\* The slots that hold a stored record (no Save is inside its body).
Occupied == 0..(count - 1)

\* No retained record has the id.
Absent(id) == \A i \in Occupied : buf[i].ID # id

\* C11: when UpdateStatus(id, s) succeeds, Get(id) afterwards returns the
\* record Get(id) returned before with Status s and every other field the same,
\* and every other slot of the ring is unchanged.
C11_StatusUpdateVisible ==
  [][(arg'[Main].op = "UpdateStatus" /\ ret'[Main].err = Nil) =>
       LET id == arg'[Main].id
           before == Get(index, buf, id)
           after == Get(index', buf', id)
       IN  /\ before.err = Nil /\ after.err = Nil
           /\ after.event.Status = arg'[Main].status
           /\ after.event = [before.event EXCEPT !.Status = arg'[Main].status]
           /\ \A i \in 0..(cap - 1) : i # index[id] => buf'[i] = buf[i]]_vars

\* C11 witness: the last call, UpdateStatus(id, completed), succeeded on a store
\* that holds the updated record and another one, still received.
C11_Witness ==
  /\ arg[Main].op = "UpdateStatus" /\ ret[Main].err = Nil
  /\ arg[Main].status = EventStatusCompleted
  /\ Get(index, buf, arg[Main].id).event.Status = EventStatusCompleted
  /\ \E i \in Occupied : buf[i].ID # arg[Main].id /\ buf[i].Status = EventStatusReceived

\* The ids List returns for the whole store, newest first.
ListedIds(b, h, n, c) ==
  LET l == List(b, h, n, c, c, 0) IN [i \in 1..Len(l) |-> l[i].ID]

\* C12: UpdateStatus leaves head, count, index and cap unchanged and every
\* record in its slot (only a Status differs), so List returns the same records
\* in the same order and the next Save evicts the same record as without it.
C12_UpdateStatusKeepsOrder ==
  [][arg'[Main].op = "UpdateStatus" =>
       /\ head' = head /\ count' = count /\ index' = index /\ cap' = cap
       /\ \A i \in 0..(cap - 1) : SameButStatus(buf'[i], buf[i])
       /\ ListedIds(buf', head', count', cap') = ListedIds(buf, head, count, cap)
       /\ EvictOldest(index', buf', head', count', cap')
            = EvictOldest(index, buf, head, count, cap)]_vars

\* C12 witness: the last call, UpdateStatus, succeeded on the oldest record of a
\* full store of at least two slots, the one the next Save evicts.
C12_Witness ==
  /\ arg[Main].op = "UpdateStatus" /\ ret[Main].err = Nil
  /\ cap >= 2 /\ count = cap
  /\ buf[head].ID = arg[Main].id /\ index[arg[Main].id] = head
  /\ buf[head].Status = arg[Main].status

\* C13: Get and UpdateStatus on an id that no retained record has (never saved,
\* or evicted) return ErrNotFound, Get returns the zero Event, and the store is
\* left as it was.
C13_AbsentIdNotFound ==
  [][(arg'[Main].op \in {"Get", "UpdateStatus"} /\ Absent(arg'[Main].id)) =>
       /\ ret'[Main].err = ErrNotFound
       /\ arg'[Main].op = "Get" => ret'[Main] = [event |-> ZeroEvent, err |-> ErrNotFound]
       /\ store' = store]_vars

\* C13 witness: the last call, UpdateStatus on the id of an evicted record that
\* no retained record has, returned ErrNotFound.
C13_Witness ==
  /\ arg[Main].op = "UpdateStatus" /\ ret[Main].err = ErrNotFound
  /\ Absent(arg[Main].id)
  /\ \E k \in Evicted : hist[k].ID = arg[Main].id

\* C15: no two occupied slots of the ring hold records with the same id.
C15_IdUniqueAmongRetained ==
  \A i, j \in Occupied : i # j => buf[i].ID # buf[j].ID

\* C16: the Status in a slot changes only when UpdateStatus is called on the id
\* of the record it holds, or when Save overwrites the slot with another record:
\* Save leaves the Status of every record that stays retained, and Get, List and
\* Count leave every Status.
C16_StatusChangesOnlyByUpdate ==
  [][\A i \in 0..(cap - 1) :
       buf'[i].Status # buf[i].Status =>
         \/ /\ arg'[Main].op = "UpdateStatus"
            /\ i \in Occupied /\ buf[i].ID = arg'[Main].id
         \/ /\ arg'[Main].op = "Save"
            /\ i = head /\ buf'[i] = arg'[Main].event]_vars

\* C16 witness: the last call, a Save into a full store, left a retained record
\* with the Status forwarded that an earlier UpdateStatus gave it.
C16_Witness ==
  /\ arg[Main].op = "Save" /\ Len(hist) > cap
  /\ \E i \in Occupied :
       buf[i] # arg[Main].event /\ buf[i].Status = EventStatusForwarded

C14_CapacityValidation ==
  /\ arg[Main].op = "NewMemoryStore" =>
       IF arg[Main].capacity <= 0
       THEN ret[Main].err = ErrInvalidCapacity /\ ~NotNil
       ELSE /\ ret[Main].err = Nil /\ NotNil
            /\ cap = arg[Main].capacity /\ count = 0
            /\ \A limit \in ListArgs, offset \in ListArgs :
                 List(buf, head, count, cap, limit, offset) = <<>>
  /\ (hist = <<>> /\ arg[Main].op = "Count") => ret[Main] = [n |-> 0, err |-> Nil]
  /\ (hist = <<>> /\ arg[Main].op = "List") => ret[Main] = [events |-> <<>>, err |-> Nil]

\* C14 witness: NewMemoryStore(0) returned ErrInvalidCapacity and no store.
C14_Witness ==
  /\ arg[Main] = [op |-> "NewMemoryStore", capacity |-> 0]
  /\ ret[Main].err = ErrInvalidCapacity
  /\ ~NotNil

\* What a record says to its reader: the fields, with the bytes and the map
\* its RawBody and Headers refer to in the memory h.
Deref(e, h) ==
  [e EXCEPT !.RawBody = IF e.RawBody = 0 THEN "" ELSE h[e.RawBody].RawBody,
            !.Headers = IF e.Headers = 0 THEN "" ELSE h[e.Headers].Headers]

\* C17: a step that is no writing call of the store (a Get, a List, a write of
\* the caller to a value it was returned or to the value it passed to Save:
\* its Status, its Headers map, its RawBody bytes) leaves every record held by
\* the store unchanged.
C17_ReadsDoNotAlias ==
  [][store' = store =>
       \A i \in 0..(cap - 1) : Deref(buf'[i], heap') = Deref(buf[i], heap)]_vars

\* No Save has evicted a record since the n-th Save.
NoEvictionSince(n) == Len(hist) <= Max(n, cap)

\* C19: when the handler of an accepted request whose Forward succeeded
\* returns, it has called Save once, then Forward, then UpdateStatus(id,
\* forwarded), on the event it parsed; it has answered 200 with the agent's
\* response; and if no eviction has happened since its Save, the record it
\* saved is in its slot with Status forwarded.
C19_ForwardedPipeline ==
  [][\A p \in Callers :
       (pc[p] = "Webhook139" /\ pc'[p] = "idle") =>
         LET a == arg'[p]
         IN  /\ Len(a.calls) = 3
             /\ a.calls[1] = [call |-> "Save", event |-> a.evt, err |-> Nil]
             /\ a.calls[2] = [call |-> "Forward", event |-> a.evt, err |-> Nil]
             /\ a.calls[3].call = "UpdateStatus"
             /\ a.calls[3].id = a.evt.ID
             /\ a.calls[3].status = EventStatusForwarded
             /\ ret'[p] = Response(200, AgentResponse(a.evt))
             /\ NoEvictionSince(a.n) =>
                  /\ SameButStatus(buf'[(a.n - 1) % cap], a.evt)
                  /\ buf'[(a.n - 1) % cap].Status = EventStatusForwarded]_vars

\* C20: when the handler of an accepted request whose Forward failed returns,
\* it has called UpdateStatus(id, failed) and never UpdateStatus(id, forwarded),
\* it has answered 502, its Save is not undone, and if no eviction has happened
\* since its Save, the record it saved is in its slot with Status failed.
C20_FailedPipeline ==
  [][\A p \in Callers :
       (pc[p] = "Webhook131" /\ pc'[p] = "idle") =>
         LET a == arg'[p]
         IN  /\ Len(a.calls) = 3
             /\ a.calls[1] = [call |-> "Save", event |-> a.evt, err |-> Nil]
             /\ a.calls[2].call = "Forward" /\ a.calls[2].err # Nil
             /\ a.calls[3].call = "UpdateStatus"
             /\ a.calls[3].id = a.evt.ID
             /\ a.calls[3].status = EventStatusFailed
             /\ ret'[p] = Response(502, [error |-> "agent forwarding failed"])
             /\ hist' = hist /\ count' = count /\ head' = head /\ index' = index
             /\ NoEvictionSince(a.n) =>
                  /\ SameButStatus(buf'[(a.n - 1) % cap], a.evt)
                  /\ buf'[(a.n - 1) % cap].Status = EventStatusFailed]_vars


\* A handler that has run to its end: it was accepted, called Save, Forward
\* and UpdateStatus, and wrote its response.
Handled(p) ==
  /\ pc[p] = "idle"
  /\ arg[p].op = "webhook"
  /\ Len(arg[p].calls) = 3

\* C21: the response of a webhook request depends on the outcome of Forward
\* alone: 200 with the agent's response after a successful forward, 502 after
\* a failed one, whether the UpdateStatus that followed returned nil or an error.
C21_UpdateFailureNotEscalated ==
  \A p \in Callers :
    Handled(p) =>
      ret[p] = IF arg[p].calls[2].err = Nil
               THEN Response(200, AgentResponse(arg[p].evt))
               ELSE Response(502, [error |-> "agent forwarding failed"])

\* A handler answered 200 although its UpdateStatus returned ErrNotFound: the
\* Save of the other handler had evicted its record.
C21_Witness ==
  \E p \in Callers :
    /\ Handled(p)
    /\ arg[p].calls[3].err = ErrNotFound
    /\ arg[p].n \in Evicted
    /\ ret[p].code = 200

\* C22: whenever the UpdateStatus of a handler returned an error, the handler
\* has logged that error.
C22_UpdateFailureLogged ==
  \A p \in Callers :
    (Handled(p) /\ arg[p].calls[3].err # Nil) =>
      \E i \in 1..Len(arg[p].logs) : arg[p].logs[i].error = arg[p].calls[3].err


\* The step is the handler of p taking up request r.
Handles(p, r) ==
  /\ pc[p] = "idle"
  /\ arg'[p] # arg[p] \/ ret'[p] # ret[p]
  /\ arg'[p].op = "webhook"
  /\ arg'[p].req = r

CallNames(calls) == [i \in 1..Len(calls) |-> calls[i].call]

\* Handler p makes the call named name in this step.
Calls(p, name) ==
  /\ arg'[p].op = "webhook"
  /\ arg'[p] # arg[p]
  /\ arg'[p].calls # <<>>
  /\ arg'[p].calls[Len(arg'[p].calls)].call = name

\* C30: in every request the calls come in the order Save, Forward,
\* UpdateStatus. When Save has returned, and Forward is not yet called, the
\* record is what Get returns for its id and what List returns first, with
\* status received; Forward is called only after a Save that returned nil;
\* UpdateStatus only after Forward has returned; and the response is written
\* in the step of UpdateStatus, not before.
C30_PipelineOrder ==
  [][\A p \in Callers :
       /\ Calls(p, "Save") =>
            /\ CallNames(arg'[p].calls) = <<"Save">>
            /\ arg'[p].calls[1].err = Nil =>
                 /\ pc'[p] = "Webhook129" /\ ret'[p] = NoRet
                 /\ arg'[p].evt.Status = EventStatusReceived
                 /\ Get(index', buf', arg'[p].evt.ID) = [event |-> arg'[p].evt, err |-> Nil]
                 /\ List(buf', head', count', cap', 1, 0) = <<arg'[p].evt>>
            /\ arg'[p].calls[1].err # Nil => pc'[p] = "idle" /\ ret'[p].code = 500
       /\ Calls(p, "Forward") =>
            /\ CallNames(arg[p].calls) = <<"Save">>
            /\ arg[p].calls[1].err = Nil
            /\ CallNames(arg'[p].calls) = <<"Save", "Forward">>
            /\ ret'[p] = NoRet /\ pc'[p] # "idle"
       /\ Calls(p, "UpdateStatus") =>
            /\ CallNames(arg[p].calls) = <<"Save", "Forward">>
            /\ CallNames(arg'[p].calls) = <<"Save", "Forward", "UpdateStatus">>
            /\ ret[p] = NoRet /\ ret'[p] # NoRet /\ pc'[p] = "idle"
       /\ (ret'[p] # ret[p] /\ ret'[p] # NoRet /\ arg'[p].op = "webhook"
             /\ arg'[p].calls # <<>>) =>
            Calls(p, "UpdateStatus") \/ arg'[p].calls[1].err # Nil]_vars

\* Both handlers are between their Save and their Forward, and one handler has
\* gone through the whole pipeline before.
C30_Witness ==
  /\ \A p \in Callers : pc[p] = "Webhook129" /\ CallNames(arg[p].calls) = <<"Save">>
  /\ Len(hist) = 3


\* C25: GET /admin/events is answered 200 with the min(50, Count()) most
\* recently saved records, the newest first, and with a count that is the
\* number of those records; the store is as it was.
C25_AdminEvents ==
  [][\A p \in Callers :
       (arg'[p].op = "adminEvents" /\ (arg'[p] # arg[p] \/ ret'[p] # ret[p])) =>
         /\ store' = store /\ hist' = hist
         /\ arg'[p].calls = <<[call |-> "List", limit |-> 50, offset |-> 0, err |-> Nil]>>
         /\ ret'[p].code = 200
         /\ LET events == ret'[p].body.events
            IN  /\ Len(events) = Min(50, count)
                /\ Len(events) <= 50
                /\ ret'[p].body.count = Len(events)
                /\ \A i \in 1..Len(events) :
                     /\ events[i] = buf[(Len(hist) - i) % cap]
                     /\ SameButStatus(events[i], hist[Len(hist) - i + 1])]_vars

\* The listing was cut at 50: the store holds more, and records were evicted.
C25_Witness ==
  \E p \in Callers :
    /\ arg[p].op = "adminEvents"
    /\ ret[p].body.count = 50
    /\ count > 50
    /\ Len(hist) > cap


\* The slot the k-th Save wrote.
SlotOf(k) == (k - 1) % cap

\* The retained records saved before the k-th that have its id.
OlderSameId(k) == {j \in Retained : j < k /\ hist[j].ID = hist[k].ID}

\* C29: when Save has stored a record whose id a retained record has, the
\* index entry of the id is the new slot: Get(id) returns the new record and
\* UpdateStatus(id, s) succeeds and writes that slot only. The older record is
\* still in its slot, counted by Count and returned by List at its place. And
\* as long as the index has an id, its entry is the slot of the newest retained
\* record with that id, every retained record being in the slot it was saved to.
C29_DuplicateIdSave ==
  /\ (arg[Main].op = "Save" /\ OlderSameId(Len(hist)) # {}) =>
       LET id == arg[Main].event.ID
           new == SlotOf(Len(hist))
       IN  /\ index[id] = new
           /\ Get(index, buf, id) = [event |-> arg[Main].event, err |-> Nil]
           /\ UpdateStatusErr(index, id) = Nil
           /\ \A s \in EventStatus, i \in DOMAIN buf :
                i # new => SetStatus(buf, index[id], s)[i] = buf[i]
           /\ \A j \in OlderSameId(Len(hist)) :
                /\ SameButStatus(buf[SlotOf(j)], hist[j])
                /\ SlotOf(j) # new
                /\ count >= Len(hist) - j + 1
                /\ List(buf, head, count, cap, count, 0)[Len(hist) - j + 1] = buf[SlotOf(j)]
  /\ \A k \in Retained : SameButStatus(buf[SlotOf(k)], hist[k])
  /\ \A id \in DOMAIN index :
       \E k \in Retained :
         /\ hist[k].ID = id
         /\ index[id] = SlotOf(k)
         /\ \A j \in Retained : hist[j].ID = id => j <= k

\* Two retained records have the same id, and the last call, UpdateStatus on
\* that id, has changed the newer one and left the older one received.
C29_Witness ==
  /\ arg[Main].op = "UpdateStatus"
  /\ ret[Main].err = Nil
  /\ \E k \in Retained :
       /\ hist[k].ID = arg[Main].id
       /\ OlderSameId(k) # {}
       /\ buf[SlotOf(k)].Status = arg[Main].status
       /\ \A j \in OlderSameId(k) : buf[SlotOf(j)].Status = EventStatusReceived


\* C24: run never returns the error of NewMemoryStore. When the file gives a
\* negative store.capacity, Load fails and no store is constructed; when Load
\* succeeds, the store has a capacity of at least 1: the file's, or 1000 when
\* the file gives 0 or nothing.
C24_ConfiguredCapacityPositive ==
  LET file == arg[Main].file
  IN  /\ ret[Main].at # "creating store"
      /\ ret[Main].err # ErrInvalidCapacity
      /\ file.capacity < 0 => ret[Main].at = "loading config" /\ ~NotNil
      /\ ret[Main].err = Nil =>
           /\ NotNil
           /\ cap >= 1
           /\ cap = IF file.capacity = 0 THEN 1000 ELSE file.capacity
           /\ DOMAIN buf = 0..(cap - 1)

\* The file gave no capacity, the store was made with 1000 slots, and the
\* server has stored events in it.
C24_Witness ==
  /\ arg[Main].file.capacity = 0
  /\ ret[Main].err = Nil
  /\ cap = 1000
  /\ count = MaxSaves


\* s is the beginning of t.
IsPrefix(s, t) == Len(s) <= Len(t) /\ s = SubSeq(t, 1, Len(s))

\* C26: every request enters Recovery first, then Logging, then RequestID, and
\* only then the route's handler.
C26_MiddlewareOrder ==
  \A p \in Callers :
    arg[p].op = "http" =>
      IsPrefix(arg[p].entered, <<"Recovery", "Logging", "RequestID", "Router">>)

\* C27: a request whose handler panicked is answered 500 with the JSON error
\* "internal server error"; the panic has been recovered and logged by the
\* time ServeHTTP returns, it never reaches the caller, and the goroutine
\* takes the next request.
C27_PanicRecovered ==
  \A p \in Callers :
    /\ pc[p] # "panicked"
    /\ (arg[p].op = "http" /\ arg[p].req.path = "/panic" /\ pc[p] = "idle") =>
         /\ ret[p] = Response(500, [error |-> "internal server error"])
         /\ arg[p].panic = Nil
         /\ \E i \in 1..Len(arg[p].logs) :
              /\ arg[p].logs[i].msg = "panic recovered"
              /\ arg[p].logs[i].error = "test panic"
         /\ ENABLED (\E r \in HTTPRequests : ServeHTTP(p, r))

\* One goroutine has answered a panicking handler with 500 while the other
\* has since answered a request to /health with 200.
C27_Witness ==
  \E p \in Callers, q \in Callers :
    /\ p # q
    /\ arg[p].op = "http" /\ arg[p].req.path = "/panic" /\ pc[p] = "idle"
    /\ ret[p].code = 500
    /\ arg[q].op = "http" /\ arg[q].req.path = "/health" /\ pc[q] = "idle"
    /\ ret[q].code = 200


\* The positions in the registry's list of the skills an allowlist names.
AllowedAt(allowlist) ==
  {i \in 1..Len(skills) : \E j \in 1..Len(allowlist) : skills[i].Name = allowlist[j]}

\* C28: Filter leaves the registry's list as it was. With an empty allowlist
\* it returns that list; otherwise it returns the skills of the list whose
\* name the allowlist has, each once per place in the list and in the order of
\* the list, and nothing else (nothing at all when no name matches).
C28_FilterAllowlist ==
  arg[Main].op = "Filter" =>
    LET allowlist == arg[Main].allowlist
        filtered == ret[Main].filtered
        at == AllowedAt(allowlist)
    IN  /\ skills = arg[Main].receiver
        /\ allowlist = <<>> => filtered = skills
        /\ allowlist # <<>> =>
             /\ Len(filtered) = Cardinality(at)
             /\ \A j \in 1..Len(filtered) :
                  \E i \in at :
                    /\ Cardinality({k \in at : k <= i}) = j
                    /\ filtered[j] = skills[i]
             /\ at = {} => filtered = <<>>

\* Filter has returned two skills of three, the first and the last, for an
\* allowlist that names them in the other order.
C28_Witness ==
  /\ arg[Main].op = "Filter"
  /\ Len(skills) = 3
  /\ AllowedAt(arg[Main].allowlist) = {1, 3}
  /\ Len(arg[Main].allowlist) = 2
  /\ arg[Main].allowlist[1] = skills[3].Name
  /\ ret[Main].filtered = <<skills[1], skills[3]>>


\* The k-th saved record is retained, it was saved while an older record with
\* its id was retained, and no record saved since has its id.
NewerOfDuplicate(k) ==
  /\ k \in Retained
  /\ \E j \in 1..(k - 1) : j >= k - cap /\ hist[j].ID = hist[k].ID
  /\ \A j \in (k + 1)..Len(hist) : hist[j].ID # hist[k].ID

\* C31: a record saved while an older record with the same id was retained
\* is what Get returns for the id for as long as its own slot is not written
\* again, also after the older record's slot has been.
C31_NewerStaysRetrievable ==
  \A k \in 1..Len(hist) : NewerOfDuplicate(k) => Retrievable(k)


\* C32: every record List(capacity, 0) returns is the record Get returns for
\* its id, and every id for which Get succeeds is the id of a record, the one
\* Get returns, that List(capacity, 0) returns.
C32_ListGetAgree ==
  LET l == List(buf, head, count, cap, cap, 0)
  IN  /\ \A i \in 1..Len(l) : Get(index, buf, l[i].ID) = [event |-> l[i], err |-> Nil]
      /\ \A id \in Ids :
           Get(index, buf, id).err = Nil =>
             \E i \in 1..Len(l) : l[i] = Get(index, buf, id).event


C34_ListIsSnapshot ==
  \A p \in Callers :
    pc[p] \in {"List78", "List88", "ListRet"} =>
      LET events == ret[p].events
          whole == List(buf, head, count, cap, arg[p].limit, arg[p].offset)
          offset == ClampOffset(arg[p].offset)
      IN  /\ \A q \in Callers : ~InWriter(q)
          /\ IsPrefix(events, whole)
          /\ pc[p] = "ListRet" => events = whole
          /\ Len(events) <= Max(arg[p].limit, 0)
          /\ \A j \in 1..Len(events) :
               /\ offset + j <= count
               /\ events[j] = buf[SlotOf(Len(hist) - offset - j + 1)]
               /\ SameButStatus(events[j], hist[Len(hist) - offset - j + 1])

\* A List has appended two records of a store that has evicted one, while
\* the other goroutine has called UpdateStatus and waits for the lock.
C34_Witness ==
  \E p, q \in Callers :
    /\ pc[p] = "ListRet" /\ Len(ret[p].events) = 2
    /\ Len(hist) > cap
    /\ pc[q] = "UpdateStatus104"

\* C35: the UpdateStatus a request calls changes no slot but the one its own
\* Save wrote, and that slot only while it still holds the record of the
\* request.
C35_UpdateStatusOwnRecordOnly ==
  [][\A p \in Callers :
       Calls(p, "UpdateStatus") =>
         \A j \in 0..(cap - 1) :
           buf'[j] # buf[j] => /\ j = SlotOf(arg[p].n)
                               /\ arg[p].n \in Retained]_vars

\* C36: after n Saves on a store of capacity C, whatever else was called, the
\* write cursor is n mod C and lies in 0..C-1, the size is min(n, C) and is what
\* Count returns, the i-th most recent record (0 <= i < size) is in slot
\* (cursor - 1 - i + C) mod C, and no call makes the size smaller.
C36_CursorAndSize ==
  /\ [](/\ head = Len(hist) % cap
        /\ head \in 0..(cap - 1)
        /\ count = Min(Len(hist), cap)
        /\ arg[Main].op = "Count" => ret[Main] = [n |-> Min(Len(hist), cap), err |-> Nil]
        /\ \A i \in 0..(count - 1) :
             SameButStatus(buf[ListPos(head, i, cap)], hist[Len(hist) - i]))
  /\ [][count' >= count]_vars

\* Count is called on a store of capacity 2 that has wrapped around.
C36_Witness ==
  /\ cap = 2
  /\ Len(hist) = 3
  /\ head = 1
  /\ arg[Main].op = "Count"
  /\ ret[Main].n = 2

\* C37: a call of Get, List or Count leaves the ring buffer, the index, the
\* write cursor, the size and the capacity as they were, whatever its
\* arguments: ids that are not stored, limits <= 0, offsets below 0 or past the
\* size.
C37_ReadsChangeNothing ==
  [][arg'[Main].op \in {"Get", "List", "Count"} =>
       /\ buf' = buf
       /\ index' = index
       /\ head' = head
       /\ count' = count
       /\ cap' = cap]_vars

\* List was called with an offset past the size on a store that has wrapped
\* around, and returned nothing.
C37_Witness ==
  /\ Len(hist) > cap
  /\ arg[Main].op = "List"
  /\ arg[Main].limit > 0
  /\ arg[Main].offset > count
  /\ ret[Main].events = <<>>

\* The UpdateStatus calls handler p has made in its request.
StatusUpdates(p) ==
  IF arg[p].op # "webhook" THEN {}
  ELSE {i \in 1..Len(arg[p].calls) : arg[p].calls[i].call = "UpdateStatus"}

\* C38: in the gateway every record is saved with Status received; a request
\* calls UpdateStatus at most once, and such a call changes the Status of one
\* slot at most, to forwarded or failed; no record has Status completed; and a
\* slot whose record is forwarded or failed holds Status received again only
\* when a Save has overwritten it with a new record.
C38_StatusLifecycle ==
  /\ [](/\ \A k \in 1..Len(hist) : hist[k].Status = EventStatusReceived
        /\ \A i \in Occupied :
             buf[i].Status \in {EventStatusReceived, EventStatusForwarded, EventStatusFailed}
        /\ \A p \in Callers : Cardinality(StatusUpdates(p)) <= 1)
  /\ [][\A i \in 0..(cap - 1) :
          /\ buf'[i] # buf[i] =>
               \/ /\ \E p \in Callers : Calls(p, "Save")
                  /\ i = head
                  /\ hist' = Append(hist, buf'[i])
                  /\ buf'[i].Status = EventStatusReceived
               \/ /\ \E p \in Callers : Calls(p, "UpdateStatus")
                  /\ hist' = hist
                  /\ buf'[i].Status \in {EventStatusForwarded, EventStatusFailed}
                  /\ SameButStatus(buf'[i], buf[i])
                  /\ \A j \in 0..(cap - 1) : j # i => buf'[j] = buf[j]
          /\ (/\ buf[i].Status \in {EventStatusForwarded, EventStatusFailed}
              /\ buf'[i].Status = EventStatusReceived)
               => i = head /\ count = cap /\ hist' = Append(hist, buf'[i])]_vars

\* The store of capacity 2 has wrapped around, one retained record is failed
\* and the other forwarded, and both handlers have returned.
C38_Witness ==
  /\ cap = 2
  /\ Len(hist) > cap
  /\ \E i, j \in Occupied :
       buf[i].Status = EventStatusFailed /\ buf[j].Status = EventStatusForwarded
  /\ \A p \in Callers : pc[p] = "idle" /\ Cardinality(StatusUpdates(p)) = 1

====
